---- MODULE Spec2Model ----
(***************************************************************************)
(* Model of the WebSocket notification server's connection registry        *)
(* (ConnectionManager, src/websocket_server/services/connection_manager.py)*)
(* as asyncio tasks sharing one event loop.                                *)
(*                                                                         *)
(* Scheduling.  A task runs without interruption from one suspension to    *)
(* the next, and a step of the model is the code between two suspensions.  *)
(* A task suspends when it awaits a transport call (accept, send_json,     *)
(* close), which later returns or raises, and when it enters               *)
(* `async with self._lock` while the lock is held or other tasks already   *)
(* wait for it: asyncio.Lock.acquire() returns at once on a free lock with *)
(* no waiters, and a released lock goes to the waiters in FIFO order.      *)
(* A coroutine that returns hands its result to its caller in the same     *)
(* step: "done" is the instant of the return, and nothing else runs before *)
(* the caller has the result.                                              *)
(***************************************************************************)
EXTENDS Integers, FiniteSets, Sequences, TLC

(* ---------------------------------------------------------------- bounds *)
NumClients == 3        \* distinct client ids
MaxSockets == 3        \* WebSocket objects of one client id alive at a time
MaxTime == 4           \* clock ticks
MaxConnects == 3       \* connections accepted over the server's lifetime
MaxSignals == 2        \* termination signals delivered to the process
MaxNotifications == 2  \* notifications the periodic loop creates
MaxWorkers == 3        \* worker processes of one deployment

(* ------------------------------------------------------------- settings *)
max_connections == 2   \* settings.max_connections
shutdown_timeout == 2  \* settings.shutdown_timeout, in ticks
ping_interval == 1     \* settings.ping_interval: a tick of the clock is one ping interval

\* The tasks of the event loop. Task 1 runs any operation of the registry, as
\* the notification loop, the shutdown handler and the endpoints do between
\* them; task 2 is a websocket_endpoint handler, which calls connect and, when
\* its client is gone, disconnect.
Callers == {1}
Handlers == {2}
Tasks == Callers \cup Handlers
Clients == 1..NumClients
\* A WebSocket object: the n-th one alive for client id c
Sockets == Clients \X (1..MaxSockets)
NoTask == 0
None == -1             \* Python's None, for a last_ping never set
NoSocket == <<0, 0>>   \* no WebSocket object

VARIABLES
    connections,          \* self._connections: client id -> WebSocket
    connection_info,      \* self._connection_info: client id -> ConnectionInfo
    total_connections,    \* self._total_connections
    lock,                 \* self._lock: the task holding it, or NoTask
    waiters,              \* self._lock._waiters: the tasks suspended in acquire()
    now,                  \* datetime.now(UTC), in ticks
    accepted,             \* WebSocket objects whose accept() has returned
    closeCount,           \* WebSocket object -> number of close() calls on it
    task,                 \* task -> the frame of the operation it runs (IdleTask)
    pre,                  \* task -> the registry when the operation was called
    is_running,           \* NotificationService._is_running
    notification_counter, \* NotificationService._notification_counter
    loop,                 \* NotificationService._periodic_task: where it is, or how it ended
    must_cancel,          \* cancel() was called on the periodic task and not yet delivered
    orphans,              \* periodic tasks alive that _periodic_task no longer refers to
    recipients,           \* the value the last send_notification returned
    cancelled_at,         \* where the periodic task was when it was cancelled
    broadcast_failed,     \* a broadcast of the periodic task has raised
    ctl,                  \* the caller of the service: idle, or where its call is suspended
    returned,             \* the call of the service that returned last, and how
    shutdown_requested,   \* ShutdownHandler._shutdown_requested
    shutdown_start_time,  \* ShutdownHandler._shutdown_start_time, or None
    graceful,             \* the shutdown sequence (graceful_shutdown, or _worker_shutdown): where it is
    exit_status,          \* the status the process exited with, or None
    signals,              \* termination signals delivered to the process
    did,                  \* the calls the shutdown sequence has made to its services
    worker_id,            \* worker process -> its UVICORN_WORKER_ID, or None if unset
    is_master_worker,     \* worker process, once constructed -> is_master_worker
    start_time,           \* start_time of _wait_for_local_connections, or None
    teardown              \* the graceful_shutdown awaited by the lifespan: where it is

mapVars == <<connections, connection_info, total_connections>>
lockVars == <<lock, waiters>>
wsVars == <<accepted, closeCount>>
svcVars == <<is_running, notification_counter, loop, must_cancel,
             orphans, recipients, cancelled_at, broadcast_failed, ctl, returned>>
shutVars == <<shutdown_requested, shutdown_start_time, graceful, exit_status,
              signals, did>>
workerVars == <<worker_id, is_master_worker, start_time, teardown>>
appVars == <<svcVars, shutVars, workerVars>>
vars == <<mapVars, lockVars, now, wsVars, task, pre, appVars>>

(* ------------------------------------------------------------- helpers *)
EmptyMap == [k \in {} |-> 0]

Range(d) == {d[k] : k \in DOMAIN d}

\* del d[k], d.pop(k, None)
Remove(d, k) == [x \in DOMAIN d \ {k} |-> d[x]]

\* d[k] = v
Put(d, k, v) == [x \in DOMAIN d \cup {k} |-> IF x = k THEN v ELSE d[x]]

\* ConnectionInfo(client_id=..., connected_at=datetime.now(UTC), ...): last_ping
\* defaults to None
ConnectionInfo(at) == [connected_at |-> at, last_ping |-> None]

\* A faulty duplicate check, which lets every id through
IsDuplicateNever(id) == FALSE

\* if client_id in self._connections
IsDuplicate(id) == id \in DOMAIN connections

\* A faulty capacity check, off by one: > for >=
AtCapacityOver == Cardinality(DOMAIN connections) > max_connections

\* if len(self._connections) >= settings.max_connections
AtCapacity == Cardinality(DOMAIN connections) >= max_connections

\* last_activity = info.last_ping or info.connected_at
LastActivity(info) ==
    IF info.last_ping # None THEN info.last_ping ELSE info.connected_at

\* datetime.now(UTC) - timedelta(seconds=settings.ping_interval * 3)
StaleThreshold(at) == at - ping_interval * 3

\* A faulty staleness test: <= for <
IsStaleInclusive(info, threshold) == LastActivity(info) <= threshold

\* if last_activity < stale_threshold
IsStale(info, threshold) == LastActivity(info) < threshold

\* An update of last_ping without the test of line 126: it makes a record for
\* an id that has none.
TouchCreates(info, id) ==
    IF id \in DOMAIN info
      THEN [info EXCEPT ![id].last_ping = now]
      ELSE Put(info, id, [connected_at |-> now, last_ping |-> now])

\* self._connection_info[client_id].last_ping = datetime.now(UTC), if client_id
\* still has a record
Touch(info, id) ==
    IF id \in DOMAIN info THEN [info EXCEPT ![id].last_ping = now] ELSE info

(* ----------------------------------------------------------- the frames *)
\* The locals of a call, named as in the source:
\*   pc                   where the task is suspended
\*   op                   the public operation called
\*   client_id, websocket the arguments of connect and disconnect
\*   connections_snapshot, successful_sends, failed_clients: broadcast's locals
\*   todo                 the snapshot members the send loop has yet to visit
\*   cur                  the loop variable client_id of broadcast
\*   attempts             client id -> send_json calls made by this broadcast
\*   sendRaised           the ids whose send_json raised in this broadcast
\*   closeRaised          whether a close() of the running cleanup batch raised
\*   stale_threshold, stale_clients: cleanup_stale_connections' locals
\*   client_ids           the ids _cleanup_failed_connections has yet to visit
\*   stage                the part of shutdown_all_connections the task is in
\*   out, ret             how the call ended and the value it returned
IdleTask ==
    [pc |-> "idle", op |-> "none", client_id |-> 0, websocket |-> NoSocket,
     connections_snapshot |-> EmptyMap, todo |-> {}, cur |-> 0,
     successful_sends |-> 0, failed_clients |-> {},
     attempts |-> [c \in Clients |-> 0], sendRaised |-> {}, closeRaised |-> FALSE,
     stale_threshold |-> 0, stale_clients |-> {}, client_ids |-> {},
     stage |-> "none", out |-> "none", ret |-> 0]

\* The frame of a call that returns v, or raises when how is not "ok": what the
\* caller and the transport can tell of the call; its other locals are gone.
Done(l, how, v) ==
    [IdleTask EXCEPT !.pc = "done", !.op = l.op, !.client_id = l.client_id,
                     !.websocket = l.websocket, !.sendRaised = l.sendRaised,
                     !.stale_clients = l.stale_clients, !.out = how, !.ret = v]

\* The frame l suspended at `where`
At(l, where) == [l EXCEPT !.pc = where]

\* No call is at its return: the event loop is free to run a task.
Running == \A u \in Tasks : task[u].pc # "done"

(* ---------------------------------------------------- WebSocket objects *)
\* The WebSocket objects something still refers to: the registry, a connect
\* call, or the snapshot of a broadcast.
LiveSockets ==
    Range(connections) \cup {task[t].websocket : t \in Tasks}
        \cup UNION {Range(task[t].connections_snapshot) : t \in Tasks}

FreeSockets(id) == {s \in Sockets \ LiveSockets : s[1] = id}

\* The WebSocket object of a new connection attempt of client id
FreshSocket(id) ==
    CHOOSE s \in FreeSockets(id) : \A r \in FreeSockets(id) : s[2] <= r[2]

\* What is known of the WebSocket objects after a step: an object nothing refers
\* to any more is forgotten (its identity serves a later connection).
Forget(acc, cc) ==
    /\ accepted' = acc \cap LiveSockets'
    /\ closeCount' = [s \in Sockets |-> IF s \in LiveSockets' THEN cc[s] ELSE 0]

(* ------------------------------------------------------------- the lock *)
\* asyncio.Lock.acquire(): the fast path
CanAcquire == lock = NoTask /\ waiters = <<>>

\* the lock was released and t is the first waiter
Resumes(t) == lock = NoTask /\ waiters # <<>> /\ Head(waiters) = t

(* ------------------------------------------------------------ observers *)
NoSnapshot == [valid |-> FALSE, conns |-> EmptyMap, info |-> EmptyMap,
               total |-> 0, now |-> 0]

\* The registry as a caller sees it when it makes a call that no other call
\* overlaps; valid is FALSE for a call made while another one is running.
Snapshot(t) ==
    IF \A u \in Tasks \ {t} : task[u].pc = "idle"
      THEN [valid |-> TRUE, conns |-> connections, info |-> connection_info,
            total |-> total_connections, now |-> now]
      ELSE NoSnapshot

(* ---------------------------------------------------------------- Init *)
\* The services of one process after their construction (dependencies.py)
InitServer ==
    /\ connections = EmptyMap
    /\ connection_info = EmptyMap
    /\ total_connections = 0
    /\ lock = NoTask
    /\ waiters = <<>>
    /\ now = 0
    /\ accepted = {}
    /\ closeCount = [s \in Sockets |-> 0]
    /\ task = [t \in Tasks |-> IdleTask]
    /\ pre = [t \in Tasks |-> NoSnapshot]
    /\ is_running = FALSE
    /\ notification_counter = 0
    /\ loop = "none"
    /\ must_cancel = FALSE
    /\ orphans = 0
    /\ recipients = 0
    /\ cancelled_at = "none"
    /\ broadcast_failed = FALSE
    /\ shutdown_requested = FALSE
    /\ shutdown_start_time = None
    /\ graceful = "none"
    /\ exit_status = None
    /\ signals = 0
    /\ did = {}
    /\ ctl = "idle"
    /\ returned = [op |-> "none", out |-> "none"]
    /\ start_time = None
    /\ teardown = "none"

\* A deployment of a single worker (settings.workers defaults to 1), which
\* nothing gave a worker id
Init ==
    /\ InitServer
    /\ worker_id = <<None>>
    /\ is_master_worker = <<TRUE>>

(* ------------------------------------------------------ calls, returns *)
\* What the caller t records of the registry as its call begins. A call that
\* overlaps another one invalidates what the other caller recorded.
Observed(t) ==
    pre' = [u \in Tasks |-> IF u = t THEN Snapshot(t) ELSE NoSnapshot]

\* Task t, idle, makes a call.
Calls(t) ==
    /\ Running
    /\ task[t].pc = "idle"
    /\ Observed(t)
    /\ UNCHANGED appVars

\* Task t, suspended at `where`, runs again.
Wakes(t, where) ==
    /\ Running
    /\ task[t].pc = where
    /\ UNCHANGED <<pre, appVars>>

\* The frame of task t becomes l.
Frame(t, l) == task' = [task EXCEPT ![t] = l]

\* Task t joins the waiters of the lock with frame l.
Suspend(t, l, q) ==
    /\ Frame(t, l)
    /\ waiters' = Append(q, t)

(* ------------------------------------------------------------- connect *)
\* A faulty connect, which makes its checks under the lock and releases it
\* before it awaits websocket.accept()
ConnectLockedReleasing(t, l, q) ==
    /\ waiters' = q
    /\ lock' = NoTask
    /\ IF IsDuplicate(l.client_id)
         THEN Frame(t, Done(l, "duplicate", 0))
         ELSE IF AtCapacity
                THEN Frame(t, Done(l, "limit", 0))
                ELSE Frame(t, At(l, "accept"))

\* connect(), lines 34-48, once task t has the lock, with frame l and the
\* waiters q behind it: the duplicate and the capacity check; a call that passes
\* both awaits websocket.accept() with the lock held.
ConnectLocked(t, l, q) ==
    /\ waiters' = q
    /\ IF IsDuplicate(l.client_id)
         THEN Frame(t, Done(l, "duplicate", 0)) /\ lock' = NoTask
         ELSE IF AtCapacity
                THEN Frame(t, Done(l, "limit", 0)) /\ lock' = NoTask
                ELSE Frame(t, At(l, "accept")) /\ lock' = t

\* connect(websocket, client_id) is called.
Connect(t) ==
    \E id \in Clients :
        /\ Calls(t)
        /\ FreeSockets(id) # {}
        /\ total_connections < MaxConnects
        /\ LET l == [IdleTask EXCEPT !.op = "connect", !.client_id = id,
                                     !.websocket = FreshSocket(id)]
           IN IF CanAcquire
                THEN ConnectLocked(t, l, waiters)
                ELSE Suspend(t, At(l, "connect_lock"), waiters) /\ UNCHANGED lock
        /\ UNCHANGED <<mapVars, now, wsVars>>

\* A connect call that waited for the lock gets it.
ConnectResume(t) ==
    /\ Wakes(t, "connect_lock")
    /\ Resumes(t)
    /\ ConnectLocked(t, task[t], Tail(waiters))
    /\ UNCHANGED <<mapVars, now, wsVars>>

\* A faulty connect, which stores the entry whether or not accept() raised
ConnectAcceptStores(t) ==
    /\ Wakes(t, "accept")
    /\ \E ok \in BOOLEAN :
        /\ accepted' = IF ok THEN accepted \cup {task[t].websocket} ELSE accepted
        /\ connections' = Put(connections, task[t].client_id, task[t].websocket)
        /\ connection_info' =
             Put(connection_info, task[t].client_id, ConnectionInfo(now))
        /\ total_connections' = total_connections + 1
        /\ Frame(t, Done(task[t], IF ok THEN "ok" ELSE "accept_error", 0))
    /\ lock' = NoTask
    /\ UNCHANGED <<waiters, now, closeCount>>

\* A faulty connect, which takes the lock without `async with`: an accept()
\* that raises leaves the lock taken.
ConnectAcceptKeepsLock(t) ==
    /\ Wakes(t, "accept")
    /\ \E ok \in BOOLEAN :
        IF ok
          THEN /\ accepted' = accepted \cup {task[t].websocket}
               /\ connections' = Put(connections, task[t].client_id, task[t].websocket)
               /\ connection_info' =
                    Put(connection_info, task[t].client_id, ConnectionInfo(now))
               /\ total_connections' = total_connections + 1
               /\ Frame(t, Done(task[t], "ok", 0))
               /\ lock' = NoTask
          ELSE /\ UNCHANGED <<accepted, mapVars, lock>>
               /\ Frame(t, Done(task[t], "accept_error", 0))
    /\ UNCHANGED <<waiters, now, closeCount>>

\* connect(), lines 48-57: accept() returns and the entry is stored, or accept()
\* raises and the exception leaves the `async with` block.
ConnectAccept(t) ==
    /\ Wakes(t, "accept")
    /\ \E ok \in BOOLEAN :
        IF ok
          THEN /\ accepted' = accepted \cup {task[t].websocket}
               /\ connections' = Put(connections, task[t].client_id, task[t].websocket)
               /\ connection_info' =
                    Put(connection_info, task[t].client_id, ConnectionInfo(now))
               /\ total_connections' = total_connections + 1
               /\ Frame(t, Done(task[t], "ok", 0))
          ELSE /\ UNCHANGED <<accepted, mapVars>>
               /\ Frame(t, Done(task[t], "accept_error", 0))
    /\ lock' = NoTask
    /\ UNCHANGED <<waiters, now, closeCount>>

(* ---------------------------------------------------------- disconnect *)
\* A faulty disconnect, which takes a removed connection off the total
DisconnectLockedUncounts(t, l, q) ==
    /\ waiters' = q
    /\ IF l.client_id \in DOMAIN connections
         THEN /\ connections' = Remove(connections, l.client_id)
              /\ connection_info' = Remove(connection_info, l.client_id)
              /\ total_connections' = total_connections - 1
         ELSE UNCHANGED mapVars
    /\ Frame(t, Done(l, "ok", 0))
    /\ UNCHANGED lock

\* A faulty disconnect, which deletes without the membership test of line 76 and
\* raises KeyError for an id that is not registered
DisconnectLockedStrict(t, l, q) ==
    /\ waiters' = q
    /\ IF l.client_id \in DOMAIN connections
         THEN /\ connections' = Remove(connections, l.client_id)
              /\ connection_info' = Remove(connection_info, l.client_id)
              /\ Frame(t, Done(l, "ok", 0))
         ELSE /\ UNCHANGED <<connections, connection_info>>
              /\ Frame(t, Done(l, "key_error", 0))
    /\ UNCHANGED <<lock, total_connections>>

\* disconnect(), lines 75-95, once task t has the lock
DisconnectLocked(t, l, q) ==
    /\ waiters' = q
    /\ IF l.client_id \in DOMAIN connections
         THEN /\ connections' = Remove(connections, l.client_id)
              /\ connection_info' = Remove(connection_info, l.client_id)
         ELSE UNCHANGED <<connections, connection_info>>
    /\ Frame(t, Done(l, "ok", 0))
    /\ UNCHANGED <<lock, total_connections>>

\* disconnect(client_id) is called.
Disconnect(t) ==
    \E id \in Clients :
        /\ Calls(t)
        /\ LET l == [IdleTask EXCEPT !.op = "disconnect", !.client_id = id]
           IN IF CanAcquire
                THEN DisconnectLocked(t, l, waiters)
                ELSE /\ Suspend(t, At(l, "disconnect_lock"), waiters)
                     /\ UNCHANGED <<lock, mapVars>>
        /\ UNCHANGED now
        /\ Forget(accepted, closeCount)

\* A disconnect call that waited for the lock gets it.
DisconnectResume(t) ==
    /\ Wakes(t, "disconnect_lock")
    /\ Resumes(t)
    /\ DisconnectLocked(t, task[t], Tail(waiters))
    /\ UNCHANGED now
    /\ Forget(accepted, closeCount)

(* ----------------------------------------------------------- broadcast *)
\* broadcast(), line 116: connections_snapshot = dict(self._connections)
WithSnapshot(l) ==
    [l EXCEPT !.connections_snapshot = connections, !.todo = DOMAIN connections]

\* broadcast(), lines 107-116, in a new frame l: the unlocked emptiness test,
\* then the snapshot under the lock
BroadcastBegin(t, l) ==
    IF DOMAIN connections = {}
      THEN Frame(t, Done(l, "ok", 0)) /\ UNCHANGED waiters
      ELSE IF CanAcquire
             THEN Frame(t, At(WithSnapshot(l), "send")) /\ UNCHANGED waiters
             ELSE Suspend(t, At(l, "snapshot"), waiters)

\* broadcast(message) is called.
BroadcastCall(t) ==
    /\ Calls(t)
    /\ BroadcastBegin(t, [IdleTask EXCEPT !.op = "broadcast"])
    /\ UNCHANGED <<mapVars, lock, now, wsVars>>

\* A broadcast that waited for the lock takes its snapshot.
BroadcastSnapshot(t) ==
    /\ Wakes(t, "snapshot")
    /\ Resumes(t)
    /\ waiters' = Tail(waiters)
    /\ Frame(t, At(WithSnapshot(task[t]), "send"))
    /\ UNCHANGED <<mapVars, lock, now, wsVars>>

\* A faulty broadcast, without the try/except around send_json: an exception of
\* a send leaves the loop and the call
BroadcastSendRaises(t) ==
    /\ Wakes(t, "send")
    /\ \E id \in task[t].todo, ok \in BOOLEAN :
        LET l == [task[t] EXCEPT !.todo = @ \ {id}, !.attempts[id] = @ + 1]
            sent == [l EXCEPT !.successful_sends = @ + 1]
        IN IF ok
             THEN IF CanAcquire
                    THEN /\ connection_info' = Touch(connection_info, id)
                         /\ Frame(t, sent)
                         /\ UNCHANGED waiters
                    ELSE /\ Suspend(t, At([sent EXCEPT !.cur = id], "ping"), waiters)
                         /\ UNCHANGED connection_info
             ELSE /\ Frame(t, Done([l EXCEPT !.sendRaised = @ \cup {id}],
                                   "send_error", 0))
                  /\ UNCHANGED <<connection_info, waiters>>
    /\ UNCHANGED <<connections, total_connections, lock, now, wsVars>>

\* broadcast(), lines 119-137: the awaited send_json of one snapshot member
\* returns, and its last_ping is updated under the lock, or it raises, and the
\* id joins failed_clients; the loop goes on to the next member.
BroadcastSend(t) ==
    /\ Wakes(t, "send")
    /\ \E id \in task[t].todo, ok \in BOOLEAN :
        LET l == [task[t] EXCEPT !.todo = @ \ {id}, !.attempts[id] = @ + 1]
            sent == [l EXCEPT !.successful_sends = @ + 1]
            failed == [l EXCEPT !.failed_clients = @ \cup {id},
                                !.sendRaised = @ \cup {id}]
        IN IF ok
             THEN IF CanAcquire
                    THEN /\ connection_info' = Touch(connection_info, id)
                         /\ Frame(t, sent)
                         /\ UNCHANGED waiters
                    ELSE /\ Suspend(t, At([sent EXCEPT !.cur = id], "ping"), waiters)
                         /\ UNCHANGED connection_info
             ELSE /\ Frame(t, failed)
                  /\ UNCHANGED <<connection_info, waiters>>
    /\ UNCHANGED <<connections, total_connections, lock, now, wsVars>>

\* broadcast(), lines 125-127, for a task that waited for the lock
BroadcastPing(t) ==
    /\ Wakes(t, "ping")
    /\ Resumes(t)
    /\ waiters' = Tail(waiters)
    /\ connection_info' = Touch(connection_info, task[t].cur)
    /\ Frame(t, At([task[t] EXCEPT !.cur = 0], "send"))
    /\ UNCHANGED <<connections, total_connections, lock, now, wsVars>>

(* ------------------------------------------ _cleanup_failed_connections *)
\* _cleanup_failed_connections(ids) is called from frame l while the lock is in
\* state (lk, q): line 235 acquires it at once, or the task joins the waiters.
EnterCleanup(t, l, ids, lk, q) ==
    IF lk = NoTask /\ q = <<>>
      THEN /\ Frame(t, At([l EXCEPT !.client_ids = ids], "cleanup"))
           /\ lock' = t
           /\ waiters' = q
      ELSE /\ Frame(t, At([l EXCEPT !.client_ids = ids], "cleanup_lock"))
           /\ lock' = lk
           /\ waiters' = Append(q, t)

\* broadcast() has returned into shutdown_all_connections (line 281): its locals
\* are gone.
BroadcastReturned(l) ==
    [l EXCEPT !.connections_snapshot = EmptyMap, !.todo = {}, !.cur = 0,
              !.successful_sends = 0, !.failed_clients = {},
              !.attempts = IdleTask.attempts, !.client_ids = {}]

\* shutdown_all_connections(), lines 284-287: the ids collected under the lock
\* are handed to the cleanup.
Collected(l) == [BroadcastReturned(l) EXCEPT !.stage = "final"]

\* shutdown_all_connections(), line 284, reached from frame l while the lock is
\* in state (lk, q)
EnterCollect(t, l, lk, q) ==
    IF lk = NoTask /\ q = <<>>
      THEN EnterCleanup(t, Collected(l), DOMAIN connections, NoTask, <<>>)
      ELSE /\ Frame(t, At(BroadcastReturned(l), "collect"))
           /\ lock' = lk
           /\ waiters' = Append(q, t)

\* broadcast() returns (line 152) while the lock is in state (lk, q): to its
\* caller, or into shutdown_all_connections.
AfterBroadcast(t, l, lk, q) ==
    IF l.op = "closeAll"
      THEN EnterCollect(t, l, lk, q)
      ELSE /\ Frame(t, Done(l, "ok", l.successful_sends))
           /\ lock' = lk
           /\ waiters' = q

\* broadcast(), lines 139-152: the loop is over.
BroadcastEnd(t) ==
    /\ Wakes(t, "send")
    /\ task[t].todo = {}
    /\ IF task[t].failed_clients # {}
         THEN EnterCleanup(t, task[t], task[t].failed_clients, lock, waiters)
         ELSE AfterBroadcast(t, task[t], lock, waiters)
    /\ UNCHANGED <<mapVars, now>>
    /\ Forget(accepted, closeCount)

\* A cleanup that waited for the lock gets it.
CleanupAcquire(t) ==
    /\ Wakes(t, "cleanup_lock")
    /\ Resumes(t)
    /\ lock' = t
    /\ waiters' = Tail(waiters)
    /\ Frame(t, At(task[t], "cleanup"))
    /\ UNCHANGED <<mapVars, now, wsVars>>

\* The ids of the batch that are registered: the loop passes over the others
\* without suspending (line 237).
ToClose(t) == task[t].client_ids \cap DOMAIN connections

\* A faulty cleanup, which passes over an id of the batch and keeps its entry
CleanupStepKeeps(t) ==
    /\ Wakes(t, "cleanup")
    /\ \E id \in ToClose(t) :
        Frame(t, [task[t] EXCEPT !.client_ids = @ \ {id}])
    /\ UNCHANGED <<mapVars, lockVars, now, wsVars>>

\* A faulty cleanup, with the removal inside the try block: an entry whose
\* close() raises stays registered
CleanupStepLeavesOnError(t) ==
    /\ Wakes(t, "cleanup")
    /\ \E id \in ToClose(t), ok \in BOOLEAN :
        /\ Frame(t, [task[t] EXCEPT !.client_ids = @ \ {id},
                                    !.closeRaised = @ \/ ~ok])
        /\ connections' = IF ok THEN Remove(connections, id) ELSE connections
        /\ connection_info' =
             IF ok THEN Remove(connection_info, id) ELSE connection_info
        /\ Forget(accepted, [closeCount EXCEPT ![connections[id]] = @ + 1])
    /\ UNCHANGED <<total_connections, lockVars, now>>

\* _cleanup_failed_connections(), lines 236-247: the awaited close() of one
\* registered id returns or raises (the exception is caught, line 242); the
\* entry is removed either way. The lock is held while close() is awaited.
CleanupStep(t) ==
    /\ Wakes(t, "cleanup")
    /\ \E id \in ToClose(t), ok \in BOOLEAN :
        /\ Frame(t, [task[t] EXCEPT
                        !.client_ids = @ \ {id},
                        !.closeRaised = @ \/ ~ok])
        /\ connections' = Remove(connections, id)
        /\ connection_info' = Remove(connection_info, id)
        /\ Forget(accepted, [closeCount EXCEPT ![connections[id]] = @ + 1])
    /\ UNCHANGED <<total_connections, lockVars, now>>

\* The batch is done and the lock released; control is back in the caller of
\* _cleanup_failed_connections: broadcast (line 141), cleanup_stale_connections
\* (line 220) or shutdown_all_connections (line 287).
CleanupEnd(t) ==
    /\ Wakes(t, "cleanup")
    /\ ToClose(t) = {}
    /\ LET l == [task[t] EXCEPT !.closeRaised = FALSE]
       IN CASE l.stage = "final" ->
                 /\ Frame(t, Done(l, "ok", 0))
                 /\ lock' = NoTask
                 /\ UNCHANGED waiters
            [] l.op = "cleanupStale" ->
                 /\ Frame(t, Done(l, "ok", Cardinality(l.stale_clients)))
                 /\ lock' = NoTask
                 /\ UNCHANGED waiters
            [] OTHER -> AfterBroadcast(t, l, NoTask, waiters)
    /\ UNCHANGED <<mapVars, now>>
    /\ Forget(accepted, closeCount)

(* ------------------------------------------- cleanup_stale_connections *)
\* cleanup_stale_connections(), lines 211-226, once task t has the lock: the
\* scan, then the cleanup of what it found
ScanLocked(t, l, q) ==
    LET stale == {id \in DOMAIN connection_info :
                     IsStale(connection_info[id], l.stale_threshold)}
        found == [l EXCEPT !.stale_clients = stale]
    IN IF stale # {}
         THEN EnterCleanup(t, found, stale, NoTask, q)
         ELSE /\ Frame(t, Done(found, "ok", 0))
              /\ lock' = NoTask
              /\ waiters' = q

\* cleanup_stale_connections(), lines 203-211, entered by task t at time `at`
CleanupStaleBegin(t, at) ==
    LET l == [IdleTask EXCEPT !.op = "cleanupStale",
                              !.stale_threshold = StaleThreshold(at)]
    IN IF DOMAIN connections = {}
         THEN /\ Frame(t, Done(l, "ok", 0))
              /\ UNCHANGED lockVars
         ELSE IF CanAcquire
                THEN ScanLocked(t, l, waiters)
                ELSE Suspend(t, At(l, "scan"), waiters) /\ UNCHANGED lock

\* cleanup_stale_connections() is called.
CleanupStaleCall(t) ==
    /\ Calls(t)
    /\ CleanupStaleBegin(t, now)
    /\ UNCHANGED <<mapVars, now, wsVars>>

\* A stale cleanup that waited for the lock scans.
CleanupStaleScan(t) ==
    /\ Wakes(t, "scan")
    /\ Resumes(t)
    /\ ScanLocked(t, task[t], Tail(waiters))
    /\ UNCHANGED <<mapVars, now, wsVars>>

(* -------------------------------------------- shutdown_all_connections *)
\* shutdown_all_connections() is called: lines 270-281, the unlocked emptiness
\* test and the call of broadcast(shutdown_message), whose own test follows at
\* once.
CloseAllCall(t) ==
    /\ Calls(t)
    /\ BroadcastBegin(t, [IdleTask EXCEPT !.op = "closeAll", !.stage = "notice"])
    /\ UNCHANGED <<mapVars, lock, now, wsVars>>

\* lines 284-287 for a task that waited for the lock
CloseAllCollect(t) ==
    /\ Wakes(t, "collect")
    /\ Resumes(t)
    /\ EnterCleanup(t, Collected(task[t]), DOMAIN connections, NoTask, Tail(waiters))
    /\ UNCHANGED <<mapVars, now, wsVars>>

(* ------------------------------------------------------------- callers *)
\* The caller has the result: the call and its frame are gone.
Finish(t) ==
    /\ task[t].pc = "done"
    /\ Frame(t, IdleTask)
    /\ pre' = [pre EXCEPT ![t] = NoSnapshot]
    /\ UNCHANGED <<mapVars, lockVars, now, appVars>>
    /\ Forget(accepted, closeCount)

\* Time passes between two calls: the clock is coarse, and a call takes less
\* than a tick.
Tick ==
    /\ \A u \in Tasks : task[u].pc = "idle"
    /\ now < MaxTime
    /\ now' = now + 1
    /\ UNCHANGED <<mapVars, lockVars, wsVars, task, pre, appVars>>

(* -------------------------------------------------- get_connection_count *)
\* get_connection_count(), lines 161-162, once task t has the lock
CountLocked(t, l, q) ==
    /\ waiters' = q
    /\ Frame(t, Done(l, "ok", Cardinality(DOMAIN connections)))
    /\ UNCHANGED lock

\* get_connection_count() is entered by task t.
CountBegin(t) ==
    LET l == [IdleTask EXCEPT !.op = "count"]
    IN IF CanAcquire
         THEN CountLocked(t, l, waiters)
         ELSE Suspend(t, At(l, "count_lock"), waiters) /\ UNCHANGED lock

\* A get_connection_count call that waited for the lock gets it.
CountResume(t) ==
    /\ Wakes(t, "count_lock")
    /\ Resumes(t)
    /\ CountLocked(t, task[t], Tail(waiters))
    /\ UNCHANGED <<mapVars, now, wsVars>>

(* ---------------------------------------------------- NotificationService *)
\* The task of the event loop that runs _periodic_notification_loop
PeriodicTask == CHOOSE t \in Callers : TRUE

\* self._periodic_task and not self._periodic_task.done()
Alive == loop \in {"created", "payload", "broadcast", "sleep"}

registryVars == <<mapVars, lockVars, now, wsVars, task, pre>>

\* start_periodic_notifications() without lines 31-33: a task is created
\* whether or not one is running.
StartCallAlways ==
    /\ Running
    /\ ctl = "idle"
    /\ is_running' = TRUE
    /\ loop' = "created"
    /\ must_cancel' = FALSE
    /\ orphans' = orphans + (IF Alive THEN 1 ELSE 0)
    /\ cancelled_at' = "none"
    /\ broadcast_failed' = FALSE
    /\ returned' = [op |-> "start", out |-> "ok"]
    /\ UNCHANGED <<notification_counter, recipients, ctl>>
    /\ UNCHANGED registryVars
    /\ UNCHANGED <<shutVars, workerVars>>

\* start_periodic_notifications(), lines 29-41. `orphans` counts the tasks that
\* were alive when self._periodic_task was overwritten.
StartCall ==
    /\ Running
    /\ ctl = "idle"
    /\ IF is_running
         THEN /\ returned' = [op |-> "start", out |-> "already running"]
              /\ UNCHANGED <<is_running, loop, must_cancel, orphans, cancelled_at,
                             broadcast_failed>>
         ELSE /\ is_running' = TRUE
              /\ loop' = "created"
              /\ must_cancel' = FALSE
              /\ orphans' = orphans + (IF Alive THEN 1 ELSE 0)
              /\ cancelled_at' = "none"
              /\ broadcast_failed' = FALSE
              /\ returned' = [op |-> "start", out |-> "ok"]
    /\ UNCHANGED <<notification_counter, recipients, ctl>>
    /\ UNCHANGED registryVars
    /\ UNCHANGED <<shutVars, workerVars>>

\* stop_periodic_notifications() without lines 51-56: the flag is cleared and
\* the task is neither cancelled nor awaited.
StopBeginNoCancel(op) ==
    /\ Running
    /\ ctl = "idle"
    /\ is_running' = FALSE
    /\ returned' = [op |-> op, out |-> "ok"]
    /\ UNCHANGED <<notification_counter, loop, must_cancel, orphans, recipients,
                   cancelled_at, broadcast_failed, ctl>>
    /\ UNCHANGED registryVars
    /\ UNCHANGED <<shutVars, workerVars>>

\* stop_periodic_notifications(), lines 45-54, called as `op`: a call that finds
\* the task alive cancels it and awaits it.
Stops(op) ==
    /\ Running
    /\ ctl = "idle"
    /\ IF ~is_running
         THEN /\ returned' = [op |-> op, out |-> "not running"]
              /\ UNCHANGED <<is_running, must_cancel, ctl>>
         ELSE /\ is_running' = FALSE
              /\ IF Alive
                   THEN /\ must_cancel' = TRUE
                        /\ ctl' = op
                        /\ UNCHANGED returned
                   ELSE /\ returned' = [op |-> op, out |-> "ok"]
                        /\ UNCHANGED <<must_cancel, ctl>>
    /\ UNCHANGED <<notification_counter, loop, orphans, recipients,
                   cancelled_at, broadcast_failed>>
    /\ UNCHANGED registryVars

\* stop_periodic_notifications() is called by the application.
StopBegin(op) == Stops(op) /\ UNCHANGED <<shutVars, workerVars>>

\* stop_periodic_notifications() is called.
StopCall == StopBegin("stop")

\* cleanup(), lines 248-255, is called: it awaits stop_periodic_notifications().
CleanupCall == StopBegin("cleanup")

\* stop_periodic_notifications() without lines 55-56: the CancelledError of the
\* awaited task reaches the caller.
StopReturnUncaught ==
    /\ Running
    /\ ctl # "idle"
    /\ ~Alive
    /\ ctl' = "idle"
    /\ returned' = [op |-> ctl,
                    out |-> IF loop \in {"raised", "cancelled"} THEN "error" ELSE "ok"]
    /\ UNCHANGED <<is_running, notification_counter, loop, must_cancel,
                   orphans, recipients, cancelled_at, broadcast_failed>>
    /\ UNCHANGED registryVars
    /\ UNCHANGED <<shutVars, workerVars>>

\* stop_periodic_notifications(), lines 54-61: the awaited task is done. The
\* CancelledError of a cancelled task is caught (line 55); the exception of a
\* task that raised is not.
StopReturn ==
    /\ Running
    /\ ctl # "idle"
    /\ ~Alive
    /\ ctl' = "idle"
    /\ returned' = [op |-> ctl,
                    out |-> IF loop = "raised" THEN "error" ELSE "ok"]
    /\ UNCHANGED <<is_running, notification_counter, loop, must_cancel,
                   orphans, recipients, cancelled_at, broadcast_failed>>
    /\ UNCHANGED registryVars
    /\ UNCHANGED <<shutVars, workerVars>>

\* _periodic_notification_loop(), lines 220-222, with create_test_notification,
\* lines 111-120: the task starts, or wakes from its sleep; the loop test, the
\* counter and the call of get_connection_count.
LoopIterate ==
    /\ Running
    /\ loop \in {"created", "sleep"}
    /\ ~must_cancel
    /\ task[PeriodicTask].pc = "idle"
    /\ IF ~is_running
         THEN /\ loop' = "returned"
              /\ UNCHANGED <<notification_counter, task, waiters>>
         ELSE /\ notification_counter < MaxNotifications
              /\ notification_counter' = notification_counter + 1
              /\ loop' = "payload"
              /\ CountBegin(PeriodicTask)
    /\ recipients' = 0
    /\ UNCHANGED <<is_running, must_cancel, orphans, cancelled_at,
                   broadcast_failed, ctl, returned>>
    /\ UNCHANGED <<mapVars, lock, now, wsVars, pre>>
    /\ UNCHANGED <<shutVars, workerVars>>

\* The periodic task gets the lock it waited for in get_connection_count.
LoopCountResume ==
    /\ ~must_cancel
    /\ loop = "payload"
    /\ CountResume(PeriodicTask)

\* The same without line 243: an exception that ends the task leaves
\* _is_running set.
LoopBroadcastKeepsRunning ==
    /\ loop = "payload"
    /\ task[PeriodicTask].pc = "done"
    /\ task[PeriodicTask].op = "count"
    /\ \E outcome \in {"payload raises", "broadcast raises", "broadcast runs"} :
         LET l == [IdleTask EXCEPT !.op = "broadcast"]
         IN CASE outcome = "payload raises" ->
                   /\ Frame(PeriodicTask, IdleTask)
                   /\ loop' = "raised"
                   /\ UNCHANGED <<is_running, waiters>>
              [] outcome = "broadcast raises" ->
                   /\ Frame(PeriodicTask, Done(l, "error", None))
                   /\ loop' = "broadcast"
                   /\ UNCHANGED <<is_running, waiters>>
              [] outcome = "broadcast runs" ->
                   /\ BroadcastBegin(PeriodicTask, l)
                   /\ loop' = "broadcast"
                   /\ UNCHANGED is_running
    /\ UNCHANGED <<notification_counter, must_cancel, orphans, recipients,
                   cancelled_at, broadcast_failed, ctl, returned>>
    /\ UNCHANGED <<mapVars, lock, now, wsVars, pre>>
    /\ UNCHANGED <<shutVars, workerVars>>

\* The rest of create_test_notification (lines 114-126), then
\* send_test_notification (line 136) and send_notification up to its call of
\* broadcast() (lines 73-84). Building the message may raise: the exception
\* ends the task (lines 238-244). broadcast() itself may raise at once.
LoopBroadcast ==
    /\ loop = "payload"
    /\ task[PeriodicTask].pc = "done"
    /\ task[PeriodicTask].op = "count"
    /\ \E outcome \in {"payload raises", "broadcast raises", "broadcast runs"} :
         LET l == [IdleTask EXCEPT !.op = "broadcast"]
         IN CASE outcome = "payload raises" ->
                   /\ Frame(PeriodicTask, IdleTask)
                   /\ loop' = "raised"
                   /\ is_running' = FALSE
                   /\ UNCHANGED waiters
              [] outcome = "broadcast raises" ->
                   /\ Frame(PeriodicTask, Done(l, "error", None))
                   /\ loop' = "broadcast"
                   /\ UNCHANGED <<is_running, waiters>>
              [] outcome = "broadcast runs" ->
                   /\ BroadcastBegin(PeriodicTask, l)
                   /\ loop' = "broadcast"
                   /\ UNCHANGED is_running
    /\ UNCHANGED <<notification_counter, must_cancel, orphans, recipients,
                   cancelled_at, broadcast_failed, ctl, returned>>
    /\ UNCHANGED <<mapVars, lock, now, wsVars, pre>>
    /\ UNCHANGED <<shutVars, workerVars>>

\* The steps of the broadcast the periodic task is in. A task that cancel() was
\* called on does not resume from a suspension.
LoopSnapshot == ~must_cancel /\ loop = "broadcast" /\ BroadcastSnapshot(PeriodicTask)

LoopSend == ~must_cancel /\ loop = "broadcast" /\ BroadcastSend(PeriodicTask)

LoopPing == ~must_cancel /\ loop = "broadcast" /\ BroadcastPing(PeriodicTask)

LoopEnd == loop = "broadcast" /\ BroadcastEnd(PeriodicTask)

LoopCleanupAcquire ==
    ~must_cancel /\ loop = "broadcast" /\ CleanupAcquire(PeriodicTask)

LoopCleanupStep == ~must_cancel /\ loop = "broadcast" /\ CleanupStep(PeriodicTask)

LoopCleanupEnd == loop = "broadcast" /\ CleanupEnd(PeriodicTask)

\* send_notification() without lines 97-102: what broadcast() raises reaches
\* the loop, which ends (lines 238-244).
LoopTakesPropagates ==
    /\ loop = "broadcast"
    /\ task[PeriodicTask].pc = "done"
    /\ task[PeriodicTask].op = "broadcast"
    /\ IF task[PeriodicTask].out = "error"
         THEN loop' = "raised" /\ is_running' = FALSE /\ UNCHANGED recipients
         ELSE /\ recipients' = task[PeriodicTask].ret
              /\ loop' = "sleep"
              /\ UNCHANGED is_running
    /\ broadcast_failed' = (broadcast_failed \/ task[PeriodicTask].out = "error")
    /\ Frame(PeriodicTask, IdleTask)
    /\ UNCHANGED pre
    /\ UNCHANGED <<notification_counter, must_cancel, orphans, cancelled_at,
                   ctl, returned>>
    /\ UNCHANGED <<mapVars, lockVars, now>>
    /\ UNCHANGED <<shutVars, workerVars>>
    /\ Forget(accepted, closeCount)

\* send_notification(), lines 84-102, and the loop, lines 222-233: broadcast()
\* is over; its count, or 0 when it raised, is returned to the loop, which
\* sleeps.
LoopTakes ==
    /\ loop = "broadcast"
    /\ task[PeriodicTask].pc = "done"
    /\ task[PeriodicTask].op = "broadcast"
    /\ recipients' = IF task[PeriodicTask].out = "error"
                       THEN 0
                       ELSE task[PeriodicTask].ret
    /\ loop' = "sleep"
    /\ broadcast_failed' = (broadcast_failed \/ task[PeriodicTask].out = "error")
    /\ Frame(PeriodicTask, IdleTask)
    /\ UNCHANGED pre
    /\ UNCHANGED <<is_running, notification_counter, must_cancel,
                   orphans, cancelled_at, ctl, returned>>
    /\ UNCHANGED <<mapVars, lockVars, now>>
    /\ UNCHANGED <<shutVars, workerVars>>
    /\ Forget(accepted, closeCount)

\* The periodic task is suspended: not yet started, asleep, waiting for the
\* lock, or awaiting send_json or close().
Suspended ==
    \/ loop \in {"created", "sleep"}
    \/ task[PeriodicTask].pc \in {"count_lock", "snapshot", "ping", "cleanup_lock"}
    \/ task[PeriodicTask].pc = "send" /\ task[PeriodicTask].todo # {}
    \/ task[PeriodicTask].pc = "cleanup" /\ ToClose(PeriodicTask) # {}

\* CancelledError is thrown into the suspended periodic task: no `except
\* Exception` catches it, an `async with self._lock` it leaves releases the lock
\* or gives up its place among the waiters, and the loop re-raises it (lines
\* 235-237).
LoopCancelled ==
    /\ Running
    /\ must_cancel
    /\ Alive
    /\ Suspended
    /\ loop' = "cancelled"
    /\ cancelled_at' = loop
    /\ UNCHANGED broadcast_failed
    /\ must_cancel' = FALSE
    /\ Frame(PeriodicTask, IdleTask)
    /\ waiters' = SelectSeq(waiters, LAMBDA u : u # PeriodicTask)
    /\ lock' = IF lock = PeriodicTask THEN NoTask ELSE lock
    /\ UNCHANGED pre
    /\ recipients' = 0
    /\ UNCHANGED <<is_running, notification_counter, orphans, ctl, returned>>
    /\ UNCHANGED <<mapVars, now>>
    /\ UNCHANGED <<shutVars, workerVars>>
    /\ Forget(accepted, closeCount)

(* -------------------------------------------------------- ShutdownHandler *)
\* The task of the event loop that runs graceful_shutdown. While it runs, the
\* periodic task does not wake from its sleep, so that one frame serves both.
ShutdownTask == CHOOSE t \in Callers : TRUE

\* The count that get_connection_count has just returned to the shutdown
\* sequence
Counted == task[ShutdownTask].ret

\* The shutdown sequence has the result of the call it made at place p.
HasCount(p) == graceful = p /\ task[ShutdownTask].pc = "done"

\* graceful_shutdown has entered its try statement (line 99) and not left it.
InTry == graceful \notin {"none", "created", "exited"}

\* A graceful_shutdown without line 121: the task ends and the process lives on.
EndsWithoutExit(status) ==
    /\ UNCHANGED exit_status
    /\ graceful' = "exited"
    /\ Frame(ShutdownTask, IdleTask)

\* sys.exit(status) ends the process: nothing runs any more.
Exits(status) ==
    /\ exit_status' = status
    /\ graceful' = "exited"
    /\ Frame(ShutdownTask, Done([IdleTask EXCEPT !.op = "exit"], "ok", status))

\* A handler that runs the first phase itself instead of leaving it to the task
SignalHandlerStops ==
    /\ ~shutdown_requested
    /\ signals' = signals + 1
    /\ shutdown_requested' = TRUE
    /\ shutdown_start_time' = now
    /\ graceful' = "stop"
    /\ did' = did \cup {"stop"}
    /\ Stops("stop")
    /\ UNCHANGED <<exit_status, workerVars>>

\* _signal_handler(), lines 55-81, run by the interpreter between two
\* instructions of whatever the main thread executes. The first signal sets the
\* flag and the start time and creates the task. A later one raises
\* SystemExit(1) there; where that passes through the finally clause of
\* graceful_shutdown (the signal interrupted the task's own code, or the runner
\* cancels the pending task on its way out), line 121 replaces it by
\* SystemExit(0).
SignalHandler ==
    /\ Running
    /\ signals < MaxSignals
    /\ signals' = signals + 1
    /\ IF shutdown_requested
         THEN /\ \E through_finally \in {b \in BOOLEAN : b => InTry} :
                   Exits(IF through_finally THEN 0 ELSE 1)
              /\ UNCHANGED <<shutdown_requested, shutdown_start_time>>
         ELSE /\ shutdown_requested' = TRUE
              /\ shutdown_start_time' = now
              /\ graceful' = "created"
              /\ UNCHANGED <<exit_status, task>>
    /\ UNCHANGED <<mapVars, lockVars, now, wsVars, pre, svcVars, did, workerVars>>

\* The first step of graceful_shutdown without its call of
\* stop_periodic_notifications
ShutBeginSkipsStop ==
    /\ graceful = "created"
    /\ task[ShutdownTask].pc = "idle"
    /\ Running
    /\ ctl = "idle"
    /\ graceful' = "stop"
    /\ UNCHANGED <<svcVars, registryVars>>
    /\ UNCHANGED <<workerVars, shutdown_requested, shutdown_start_time, exit_status, signals,
                   did>>

\* graceful_shutdown(), lines 87-101, _stop_services, lines 205-209: the task
\* starts and calls stop_periodic_notifications, which may raise (line 211).
ShutBegin ==
    /\ graceful = "created"
    /\ task[ShutdownTask].pc = "idle"
    /\ graceful' = "stop"
    /\ did' = did \cup {"stop"}
    /\ \E raises \in BOOLEAN :
         IF raises
           THEN Running /\ ctl = "idle" /\ UNCHANGED <<svcVars, registryVars>>
           ELSE Stops("stop")
    /\ UNCHANGED <<workerVars, shutdown_requested, shutdown_start_time, exit_status, signals>>

\* _notify_clients_shutdown(), line 216: stop_periodic_notifications has
\* returned; get_connection_count is called. Its exception is caught at line
\* 114 only, and line 121 follows.
ShutNotify ==
    /\ graceful = "stop"
    /\ ctl = "idle"
    /\ Running
    /\ task[ShutdownTask].pc = "idle"
    /\ \E raises \in BOOLEAN :
         IF raises
           THEN Exits(0) /\ UNCHANGED waiters
           ELSE /\ CountBegin(ShutdownTask)
                /\ graceful' = "notify_count"
                /\ UNCHANGED exit_status
    /\ UNCHANGED <<workerVars, shutdown_requested, shutdown_start_time, signals, did>>
    /\ UNCHANGED <<mapVars, lock, now, wsVars, pre, svcVars>>

\* A _notify_clients_shutdown without the test of line 218: the notice is sent
\* whatever the count
ShutNoticeAlways ==
    /\ graceful = "notify_count"
    /\ task[ShutdownTask].pc = "done"
    /\ did' = did \cup {"notice"}
    /\ graceful' = "notify_send"
    /\ BroadcastBegin(ShutdownTask, [IdleTask EXCEPT !.op = "broadcast"])
    /\ UNCHANGED <<workerVars, shutdown_requested, shutdown_start_time, exit_status, signals>>
    /\ UNCHANGED <<mapVars, lock, now, pre, svcVars>>
    /\ Forget(accepted, closeCount)

\* _notify_clients_shutdown(), lines 218-229: no notice for an empty registry;
\* otherwise send_system_notification, whose exception is caught at line 239.
ShutNotice ==
    /\ graceful = "notify_count"
    /\ task[ShutdownTask].pc = "done"
    /\ IF task[ShutdownTask].ret = 0
         THEN /\ graceful' = "drain"
              /\ Frame(ShutdownTask, IdleTask)
              /\ UNCHANGED <<waiters, did>>
         ELSE /\ did' = did \cup {"notice"}
              /\ \E raises \in BOOLEAN :
                   IF raises
                     THEN /\ graceful' = "drain"
                          /\ Frame(ShutdownTask, IdleTask)
                          /\ UNCHANGED waiters
                     ELSE /\ graceful' = "notify_send"
                          /\ BroadcastBegin(ShutdownTask,
                                            [IdleTask EXCEPT !.op = "broadcast"])
    /\ UNCHANGED <<workerVars, shutdown_requested, shutdown_start_time, exit_status, signals>>
    /\ UNCHANGED <<mapVars, lock, now, pre, svcVars>>
    /\ Forget(accepted, closeCount)

\* _notify_clients_shutdown(), lines 231-237: the notice is sent; the task
\* sleeps for two seconds.
ShutNoticeSent ==
    /\ graceful = "notify_send"
    /\ task[ShutdownTask].pc = "done"
    /\ graceful' = "notify_sleep"
    /\ Frame(ShutdownTask, IdleTask)
    /\ UNCHANGED <<workerVars, shutdown_requested, shutdown_start_time, exit_status, signals,
                   did>>
    /\ UNCHANGED <<mapVars, lockVars, now, pre, svcVars>>
    /\ Forget(accepted, closeCount)

\* A wait without its deadline: the loop of line 139 always goes on
DrainPollNoDeadline(at) ==
    /\ did' = did \cup {"poll"}
    /\ CountBegin(ShutdownTask)
    /\ graceful' = "drain_count"
    /\ UNCHANGED <<workerVars, shutdown_requested, shutdown_start_time, signals, exit_status>>
    /\ UNCHANGED <<mapVars, lock, wsVars, pre, svcVars>>

\* wait_for_connections_or_timeout(), lines 127-140 and 165, at time `at`: the
\* test of the deadline and the call of get_connection_count that follows it
\* either way. An exception leaves graceful_shutdown through lines 114-121.
DrainPoll(at) ==
    /\ did' = did \cup {"poll"}
    /\ \E raises \in BOOLEAN :
         IF raises
           THEN Exits(0) /\ UNCHANGED waiters
           ELSE /\ CountBegin(ShutdownTask)
                /\ graceful' = IF at < shutdown_start_time + shutdown_timeout
                                 THEN "drain_count"
                                 ELSE "drain_final"
                /\ UNCHANGED exit_status
    /\ UNCHANGED <<workerVars, shutdown_requested, shutdown_start_time, signals>>
    /\ UNCHANGED <<mapVars, lock, wsVars, pre, svcVars>>

\* wait_for_connections_or_timeout() is entered, after the notice and its
\* pause of line 237, over which the clock may have moved on, or without them.
ShutDrain ==
    /\ graceful \in {"drain", "notify_sleep"}
    /\ Running
    /\ task[ShutdownTask].pc = "idle"
    /\ \E slept \in {0, 1} :
         /\ slept = 1 => graceful = "notify_sleep"
         /\ now' = now + slept
         /\ DrainPoll(now + slept)

\* wait_for_connections_or_timeout(), lines 142-158: the registry is empty and
\* the wait is over, or cleanup_stale_connections is called.
ShutDrainPolled ==
    /\ graceful = "drain_count"
    /\ task[ShutdownTask].pc = "done"
    /\ IF task[ShutdownTask].ret = 0
         THEN /\ graceful' = "force"
              /\ Frame(ShutdownTask, IdleTask)
              /\ UNCHANGED <<lockVars, exit_status>>
         ELSE \E raises \in BOOLEAN :
                IF raises
                  THEN Exits(0) /\ UNCHANGED lockVars
                  ELSE /\ graceful' = "drain_stale"
                       /\ CleanupStaleBegin(ShutdownTask, now)
                       /\ UNCHANGED exit_status
    /\ UNCHANGED <<workerVars, shutdown_requested, shutdown_start_time, signals, did>>
    /\ UNCHANGED <<mapVars, now, pre, svcVars>>
    /\ Forget(accepted, closeCount)

\* wait_for_connections_or_timeout(), lines 159-162: the stale connections are
\* cleaned up; the task sleeps for the check interval.
ShutDrainSwept ==
    /\ graceful = "drain_stale"
    /\ task[ShutdownTask].pc = "done"
    /\ graceful' = "drain_sleep"
    /\ Frame(ShutdownTask, IdleTask)
    /\ UNCHANGED <<workerVars, shutdown_requested, shutdown_start_time, exit_status, signals,
                   did>>
    /\ UNCHANGED <<mapVars, lockVars, now, pre, svcVars>>
    /\ Forget(accepted, closeCount)

\* The sleep of line 162 is over, a check interval later.
ShutDrainWake ==
    /\ graceful = "drain_sleep"
    /\ Running
    /\ task[ShutdownTask].pc = "idle"
    /\ now' = now + 1
    /\ DrainPoll(now + 1)

\* _force_close_connections(), line 244, entered when the wait returned, or
\* after the count of line 165: get_connection_count is called.
ShutForce ==
    /\ \/ graceful = "force" /\ Running /\ task[ShutdownTask].pc = "idle"
       \/ graceful = "drain_final" /\ task[ShutdownTask].pc = "done"
    /\ \E raises \in BOOLEAN :
         IF raises
           THEN Exits(0) /\ UNCHANGED waiters
           ELSE /\ CountBegin(ShutdownTask)
                /\ graceful' = "force_count"
                /\ UNCHANGED exit_status
    /\ UNCHANGED <<workerVars, shutdown_requested, shutdown_start_time, signals, did>>
    /\ UNCHANGED <<mapVars, lock, now, wsVars, pre, svcVars>>

\* A _force_close_connections without the test of line 246
ShutForceCloseAlways ==
    /\ graceful = "force_count"
    /\ task[ShutdownTask].pc = "done"
    /\ did' = did \cup {"closeAll"}
    /\ graceful' = "force_close"
    /\ BroadcastBegin(ShutdownTask,
                      [IdleTask EXCEPT !.op = "closeAll", !.stage = "notice"])
    /\ UNCHANGED <<workerVars, shutdown_requested, shutdown_start_time, signals, exit_status>>
    /\ UNCHANGED <<mapVars, lock, now, pre, svcVars>>
    /\ Forget(accepted, closeCount)

\* _force_close_connections(), lines 246-253: nothing to close, and
\* graceful_shutdown ends (line 121); or shutdown_all_connections is called,
\* whose exception is caught at line 262.
ShutForceClose ==
    /\ graceful = "force_count"
    /\ task[ShutdownTask].pc = "done"
    /\ IF task[ShutdownTask].ret = 0
         THEN Exits(0) /\ UNCHANGED <<waiters, did>>
         ELSE /\ did' = did \cup {"closeAll"}
              /\ \E raises \in BOOLEAN :
                   IF raises
                     THEN Exits(0) /\ UNCHANGED waiters
                     ELSE /\ graceful' = "force_close"
                          /\ BroadcastBegin(ShutdownTask,
                                            [IdleTask EXCEPT !.op = "closeAll",
                                                             !.stage = "notice"])
                          /\ UNCHANGED exit_status
    /\ UNCHANGED <<workerVars, shutdown_requested, shutdown_start_time, signals>>
    /\ UNCHANGED <<mapVars, lock, now, pre, svcVars>>
    /\ Forget(accepted, closeCount)

\* _force_close_connections(), line 256: shutdown_all_connections has returned;
\* get_connection_count is called again.
ShutVerify ==
    /\ graceful = "force_close"
    /\ task[ShutdownTask].pc = "done"
    /\ \E raises \in BOOLEAN :
         IF raises
           THEN Exits(0) /\ UNCHANGED waiters
           ELSE /\ CountBegin(ShutdownTask)
                /\ graceful' = "force_verify"
                /\ UNCHANGED exit_status
    /\ UNCHANGED <<workerVars, shutdown_requested, shutdown_start_time, signals, did>>
    /\ UNCHANGED <<mapVars, lock, now, pre, svcVars>>
    /\ Forget(accepted, closeCount)

\* graceful_shutdown(), lines 112 and 121: the sequence is complete.
ShutExit ==
    /\ graceful = "force_verify"
    /\ task[ShutdownTask].pc = "done"
    /\ Exits(0)
    /\ UNCHANGED <<workerVars, shutdown_requested, shutdown_start_time, signals, did>>
    /\ UNCHANGED <<mapVars, lockVars, now, wsVars, pre, svcVars>>

\* websocket_endpoint(), lines 45-55 of endpoints/websocket.py: a connection
\* that arrives after the shutdown request is closed without a call of connect.
\* A handler interrupted by the signal between the test and the call still
\* connects, before the new task has run.
EndpointConnect(t) ==
    /\ ~shutdown_requested \/ graceful = "created"
    /\ Connect(t)

\* websocket_endpoint(), lines 94-96 of endpoints/websocket.py: the handler of
\* a connected client leaves and calls disconnect.
EndpointDisconnect(t) ==
    /\ Disconnect(t)
    /\ task'[t].client_id \in DOMAIN connections

\* A message loop without the test of lines 117-122: no handler ever leaves
\* because of the request.
LoopIgnoresShutdown(t) ==
    /\ FALSE
    /\ EndpointDisconnect(t)

\* handle_websocket_messages(), lines 115-122 of endpoints/websocket.py, in the
\* handler of a registered client: the receive of line 127 has returned or
\* timed out, the next iteration finds the shutdown requested and breaks, and
\* the endpoint calls disconnect (line 96).
LoopSeesShutdown(t) ==
    /\ shutdown_requested
    /\ EndpointDisconnect(t)

(* ------------------------------------------- calls of the service's API *)
\* A create_test_notification that counts only the notifications it has
\* recipients for
ServiceCallCountsRecipients(t) ==
    \E op \in {"send_test_notification", "send_notification", "get_service_stats"} :
        /\ Running
        /\ task[t].pc = "idle"
        /\ Observed(t)
        /\ LET l == [IdleTask EXCEPT !.op = IF op = "get_service_stats"
                                              THEN "count" ELSE "test"]
           IN CASE op = "send_notification" ->
                     /\ \E raises \in BOOLEAN :
                          IF raises
                            THEN /\ Frame(t, Done([IdleTask EXCEPT !.op = "broadcast"],
                                                  "ok", 0))
                                 /\ UNCHANGED waiters
                            ELSE BroadcastBegin(t, [IdleTask EXCEPT !.op = "broadcast"])
                     /\ UNCHANGED <<lock, notification_counter>>
                [] OTHER ->
                     /\ IF CanAcquire
                          THEN CountLocked(t, l, waiters)
                          ELSE Suspend(t, At(l, "count_lock"), waiters) /\ UNCHANGED lock
                     /\ IF op = "send_test_notification"
                          THEN /\ notification_counter < MaxNotifications
                               /\ notification_counter' =
                                    IF DOMAIN connections = {}
                                      THEN notification_counter
                                      ELSE notification_counter + 1
                          ELSE UNCHANGED notification_counter
        /\ UNCHANGED <<is_running, loop, must_cancel, orphans, recipients,
                       cancelled_at, broadcast_failed, ctl, returned>>
        /\ UNCHANGED <<mapVars, now, wsVars>>
        /\ UNCHANGED <<shutVars, workerVars>>

\* A call of the service made by task t for an HTTP endpoint or the shutdown
\* handler. send_test_notification: create_test_notification adds one to the
\* counter (line 111) and awaits get_connection_count (line 120).
\* send_notification, which send_custom_notification and
\* send_system_notification end in: broadcast() is called, and an exception is
\* caught (lines 73-95). get_service_stats: get_connection_count is awaited
\* (line 202).
ServiceCall(t) ==
    \E op \in {"send_test_notification", "send_notification", "get_service_stats"} :
        /\ Running
        /\ task[t].pc = "idle"
        /\ Observed(t)
        /\ LET l == [IdleTask EXCEPT !.op = IF op = "get_service_stats"
                                              THEN "count" ELSE "test"]
           IN CASE op = "send_notification" ->
                     /\ \E raises \in BOOLEAN :
                          IF raises
                            THEN /\ Frame(t, Done([IdleTask EXCEPT !.op = "broadcast"],
                                                  "ok", 0))
                                 /\ UNCHANGED waiters
                            ELSE BroadcastBegin(t, [IdleTask EXCEPT !.op = "broadcast"])
                     /\ UNCHANGED <<lock, notification_counter>>
                [] OTHER ->
                     /\ IF CanAcquire
                          THEN CountLocked(t, l, waiters)
                          ELSE Suspend(t, At(l, "count_lock"), waiters) /\ UNCHANGED lock
                     /\ IF op = "send_test_notification"
                          THEN /\ notification_counter < MaxNotifications
                               /\ notification_counter' = notification_counter + 1
                          ELSE UNCHANGED notification_counter
        /\ UNCHANGED <<is_running, loop, must_cancel, orphans, recipients,
                       cancelled_at, broadcast_failed, ctl, returned>>
        /\ UNCHANGED <<mapVars, now, wsVars>>
        /\ UNCHANGED <<shutVars, workerVars>>

\* send_test_notification(), lines 135-136, once create_test_notification has
\* its count: the message is built, which may raise to the caller, and
\* send_notification is called with it.
SendTest(t) ==
    /\ task[t].pc = "done"
    /\ task[t].op = "test"
    /\ \E outcome \in {"payload raises", "broadcast raises", "broadcast runs"} :
         LET l == [IdleTask EXCEPT !.op = "broadcast"]
         IN CASE outcome = "payload raises" ->
                   Frame(t, Done(l, "error", None)) /\ UNCHANGED waiters
              [] outcome = "broadcast raises" ->
                   Frame(t, Done(l, "ok", 0)) /\ UNCHANGED waiters
              [] outcome = "broadcast runs" ->
                   BroadcastBegin(t, l)
    /\ UNCHANGED <<mapVars, lock, now, wsVars, pre, appVars>>

(* ------------------------------------------------ process_client_message *)
\* The texts a client sends: not JSON, JSON that is no object, an object
\* without a type or with a type the server does not know, and the three
\* messages of the protocol
Messages ==
    {"malformed", "not_object", "no_type", "unknown",
     "ping", "pong", "status_request"}

\* json.loads(message) and data.get("type", "unknown"), lines 180 and 189: the
\* exception raised, or the message type
MessageType(m) ==
    CASE m = "malformed" -> "JSONDecodeError"
      [] m = "not_object" -> "AttributeError"
      [] m = "no_type" -> "unknown"
      [] OTHER -> m

\* A send_error_response without its try: the exception of send_json leaves it.
SendErrorResponseUnguarded(t, l) ==
    \E raises \in BOOLEAN :
        Frame(t, [Done(l, IF raises THEN "Exception" ELSE "ok", l.ret + 1)
                    EXCEPT !.stage = l.stage,
                           !.attempts = [l.attempts EXCEPT ![l.client_id] = @ + 1],
                           !.sendRaised = IF raises THEN {l.client_id} ELSE {}])

\* send_error_response(), lines 253-263, and the return of
\* process_client_message: one send_json of an error payload on the client's
\* socket, whose exception is caught. In the frame, ret counts the error
\* payloads and attempts the calls of send_json.
SendErrorResponse(t, l) ==
    \E raises \in BOOLEAN :
        Frame(t, [Done(l, "ok", l.ret + 1)
                    EXCEPT !.stage = l.stage,
                           !.attempts = [l.attempts EXCEPT ![l.client_id] = @ + 1],
                           !.sendRaised = IF raises THEN {l.client_id} ELSE {}])

\* websocket.send_json of a pong or of a status_response, lines 214 and 222:
\* its exception is caught at line 236, and send_error_response follows.
SendReply(t, l) ==
    LET sent == [l EXCEPT !.attempts[l.client_id] = @ + 1]
    IN \E raises \in BOOLEAN :
        IF raises
          THEN SendErrorResponse(t, sent)
          ELSE Frame(t, [Done(sent, "ok", 0) EXCEPT !.stage = sent.stage,
                                                    !.attempts = sent.attempts])

\* Lines 203-205 and 221-226, once task t has the lock of get_connection_info
\* or of get_connection_count, which releases it as it returns: a pong sets
\* last_ping on the record it got; a status_request is answered.
MessageLocked(t, l, q) ==
    /\ waiters' = q
    /\ UNCHANGED lock
    /\ IF l.stage = "pong"
         THEN /\ connection_info' = Touch(connection_info, l.client_id)
              /\ Frame(t, [Done(l, "ok", 0) EXCEPT !.stage = l.stage])
         ELSE /\ SendReply(t, l)
              /\ UNCHANGED connection_info

\* process_client_message(), lines 177-241, called by the message loop (line
\* 148) of the handler t of a registered client with the text it received
ProcessClientMessage(t) ==
    \E id \in DOMAIN connections, m \in Messages :
        /\ Calls(t)
        /\ LET l == [IdleTask EXCEPT !.op = "message", !.client_id = id,
                                     !.websocket = connections[id], !.stage = m]
           IN CASE MessageType(m) \in {"JSONDecodeError", "AttributeError", "unknown"}
                     -> SendErrorResponse(t, l) /\ UNCHANGED <<lockVars, connection_info>>
                [] MessageType(m) = "ping"
                     -> SendReply(t, l) /\ UNCHANGED <<lockVars, connection_info>>
                [] OTHER
                     -> IF CanAcquire
                          THEN MessageLocked(t, l, waiters)
                          ELSE /\ Suspend(t, At(l, "message_lock"), waiters)
                               /\ UNCHANGED <<lock, connection_info>>
        /\ UNCHANGED <<connections, total_connections, now>>
        /\ Forget(accepted, closeCount)

\* A process_client_message that waited for the lock gets it.
MessageResume(t) ==
    /\ Wakes(t, "message_lock")
    /\ Resumes(t)
    /\ MessageLocked(t, task[t], Tail(waiters))
    /\ UNCHANGED <<connections, total_connections, now>>
    /\ Forget(accepted, closeCount)

(* ------------------------------------------------ handle_websocket_error *)
\* The errors handed to handle_websocket_error: the subclasses of
\* WebSocketError (lines 45-68), a WebSocketError with its default code, a
\* disconnect of the client, and any other exception
Errors ==
    {"ConnectionLimitError", "DuplicateConnectionError", "ShutdownInProgressError",
     "WebSocketError", "WebSocketDisconnect", "Exception"}

\* A classification that takes every error for an internal one
CloseCodeInternal(e) == 1011

\* close_code, lines 91-100: the code of a WebSocketError (lines 51, 59, 67 and
\* the default of line 34), the code of a WebSocketDisconnect (1000 unless the
\* client gave one), or 1011
CloseCode(e) ==
    CASE e \in {"ConnectionLimitError", "DuplicateConnectionError"} -> 1008
      [] e = "ShutdownInProgressError" -> 1001
      [] e = "WebSocketDisconnect" -> 1000
      [] OTHER -> 1011

\* handle_websocket_error(), lines 88-129, called by task t with the socket of
\* a registered client that was not closed yet: the error is classified and,
\* unless it is a WebSocketDisconnect, the notice is sent, its exception being
\* caught; the close is awaited next.
HandleWebsocketError(t) ==
    \E id \in DOMAIN connections, e \in Errors, raises \in BOOLEAN :
        /\ Calls(t)
        /\ closeCount[connections[id]] = 0
        /\ e = "WebSocketDisconnect" => ~raises
        /\ Frame(t, [IdleTask EXCEPT
                        !.pc = "error_close", !.op = "error", !.client_id = id,
                        !.websocket = connections[id], !.stage = e,
                        !.ret = CloseCode(e),
                        !.attempts[id] = IF e = "WebSocketDisconnect" THEN 0 ELSE 1,
                        !.sendRaised = IF raises THEN {id} ELSE {}])
        /\ UNCHANGED <<mapVars, lockVars, now>>
        /\ Forget(accepted, closeCount)

\* handle_websocket_error(), lines 132-135: websocket.close(code=close_code)
\* returns or raises; its exception is caught and the handler returns.
ErrorClose(t) ==
    /\ Wakes(t, "error_close")
    /\ \E raises \in BOOLEAN :
         Frame(t, [Done(task[t], "ok", task[t].ret)
                     EXCEPT !.stage = task[t].stage,
                            !.attempts = task[t].attempts,
                            !.closeRaised = raises])
    /\ UNCHANGED <<mapVars, lockVars, now>>
    /\ Forget(accepted, [closeCount EXCEPT ![task[t].websocket] = @ + 1])

\* websocket_endpoint(), lines 70-76 and 94-96 of endpoints/websocket.py, in
\* the handler t whose connect raised ValueError: the socket is closed with
\* code 1008, and when the close has returned or raised, the finally clause
\* calls disconnect(client_id).
EndpointRejected(t) ==
    \/ /\ task[t].pc = "done"
       /\ task[t].op = "connect"
       /\ task[t].out \in {"duplicate", "limit"}
       /\ Frame(t, At(task[t], "rejected_close"))
       /\ UNCHANGED <<mapVars, lockVars, now, pre, appVars>>
       /\ Forget(accepted, [closeCount EXCEPT ![task[t].websocket] = @ + 1])
    \/ /\ Wakes(t, "rejected_close")
       /\ LET l == [IdleTask EXCEPT !.op = "disconnect",
                                    !.client_id = task[t].client_id,
                                    !.websocket = task[t].websocket]
          IN IF CanAcquire
               THEN DisconnectLocked(t, l, waiters)
               ELSE /\ Suspend(t, At(l, "disconnect_lock"), waiters)
                    /\ UNCHANGED <<lock, mapVars>>
       /\ UNCHANGED now
       /\ Forget(accepted, closeCount)

(* ------------------------------------------ MultiWorkerShutdownCoordinator *)
\* settings.workers: the worker processes of the deployment
workers == Len(worker_id)

\* The process whose event loop is modelled
ThisWorker == 1

\* _is_master_worker(), lines 43-48, in a process whose UVICORN_WORKER_ID is
\* env: the variable defaults to "0", and the ids "0" and "1" are masters.
IsMasterWorker(env) ==
    IF workers = 1
      THEN TRUE
      ELSE LET id == IF env = None THEN 0 ELSE env
           IN id = 0 \/ id = 1

\* __init__(), lines 15-18, in worker process w: the role is fixed at
\* construction.
Construct(w) ==
    /\ w \in DOMAIN worker_id \ DOMAIN is_master_worker
    /\ is_master_worker' = Put(is_master_worker, w, IsMasterWorker(worker_id[w]))
    /\ UNCHANGED <<teardown, worker_id, start_time, svcVars, shutVars, registryVars>>

\* The worker ids a deployment of n processes may see: the variable is set in
\* none of them, or a process manager numbers them with distinct ids.
WorkerIds(n) ==
    {[w \in 1..n |-> None]}
        \cup {f \in [1..n -> 0..MaxWorkers] :
                 \A v, w \in 1..n : v # w => f[v] # f[w]}

\* multi_worker_shutdown.py, line 170: the cap of a worker's wait, and the wait
min_cap == 300

timeout_seconds ==
    IF min_cap < shutdown_timeout \div 2 THEN min_cap ELSE shutdown_timeout \div 2

\* This process is not the master: coordinate_shutdown takes line 98.
Secondary == ~is_master_worker[ThisWorker]

\* coordinate_shutdown() ends: it returns, or re-raises (line 106) an exception
\* that the lifespan catches (app.py, line 98). Neither ends the process.
Returns(how) ==
    /\ graceful' = how
    /\ Frame(ShutdownTask, IdleTask)

\* _stop_services(), lines 205-212: stop_periodic_notifications is called; its
\* exception is caught.
StopServices(next) ==
    /\ graceful' = next
    /\ did' = did \cup {"stop"}
    /\ \E raises \in BOOLEAN :
         IF raises
           THEN Running /\ ctl = "idle" /\ UNCHANGED <<svcVars, registryVars>>
           ELSE Stops("stop")

\* A graceful_shutdown without the test of lines 87-89: the master always
\* begins the sequence.
CoordinateShutdownUnguarded ==
    /\ graceful = "none"
    /\ Running
    /\ ctl = "idle"
    /\ task[ShutdownTask].pc = "idle"
    /\ IF is_master_worker[ThisWorker]
         THEN StopServices("stop")
         ELSE StopServices("local_stop")
    /\ UNCHANGED <<workerVars, shutdown_requested, shutdown_start_time,
                   exit_status, signals>>

\* coordinate_shutdown(), lines 92-100, awaited by the lifespan (app.py, line
\* 86). The master awaits graceful_shutdown (line 128), which returns at once
\* unless a shutdown was requested (shutdown_handler.py, lines 87-89); any
\* other worker starts _worker_shutdown with _stop_services (line 150).
CoordinateShutdown ==
    /\ graceful = "none"
    /\ Running
    /\ ctl = "idle"
    /\ task[ShutdownTask].pc = "idle"
    /\ IF is_master_worker[ThisWorker]
         THEN IF shutdown_requested
                THEN StopServices("stop")
                ELSE /\ graceful' = "returned"
                     /\ UNCHANGED <<did, svcVars, registryVars>>
         ELSE StopServices("local_stop")
    /\ UNCHANGED <<workerVars, shutdown_requested, shutdown_start_time,
                   exit_status, signals>>

\* A call of get_connection_count that no try encloses (lines 153 and 209, and
\* lines 216 and 244 of shutdown_handler.py): its exception leaves
\* coordinate_shutdown.
LocalCount(next) ==
    /\ \E raises \in BOOLEAN :
         IF raises
           THEN Returns("raised") /\ UNCHANGED waiters
           ELSE CountBegin(ShutdownTask) /\ graceful' = next
    /\ UNCHANGED <<mapVars, lock, wsVars, pre, svcVars>>
    /\ UNCHANGED <<teardown, worker_id, is_master_worker, shutdown_requested,
                   shutdown_start_time, exit_status, signals>>

\* _worker_shutdown(), line 153: the services are stopped; the local count
WorkerCount ==
    /\ graceful = "local_stop"
    /\ Running
    /\ ctl = "idle"
    /\ task[ShutdownTask].pc = "idle"
    /\ LocalCount("local_count")
    /\ UNCHANGED <<now, did, start_time>>

\* _worker_shutdown(), lines 155-165: nothing more to do for a worker without
\* connections; otherwise _notify_clients_shutdown, which counts again.
WorkerNotify ==
    /\ HasCount("local_count")
    /\ IF Counted = 0
         THEN /\ Returns("returned")
              /\ UNCHANGED <<mapVars, lockVars, wsVars, pre, svcVars>>
              /\ UNCHANGED <<teardown, worker_id, is_master_worker, shutdown_requested,
                             shutdown_start_time, exit_status, signals>>
         ELSE LocalCount("notify_count")
    /\ UNCHANGED <<now, did, start_time>>

\* A wait that takes its time from the start of the process, not from its own
\* start_time
LocalPollFromZero(at, since) ==
    /\ did' = did \cup {"poll"}
    /\ IF at >= timeout_seconds
         THEN LocalCount("local_final")
         ELSE LocalCount("local_poll")

\* _wait_for_local_connections(), lines 205-209 and 231, at time `at` in a wait
\* begun at time `since`: the test of the elapsed time and the count that
\* follows it either way
LocalPoll(at, since) ==
    /\ did' = did \cup {"poll"}
    /\ IF at - since >= timeout_seconds
         THEN LocalCount("local_final")
         ELSE LocalCount("local_poll")

\* _wait_for_local_connections() is entered (lines 168, 193), after the notice
\* and its pause, over which the clock may have moved on, or without them.
WorkerWait ==
    /\ Secondary
    /\ graceful \in {"drain", "notify_sleep"}
    /\ Running
    /\ task[ShutdownTask].pc = "idle"
    /\ \E slept \in {0, 1} :
         /\ slept = 1 => graceful = "notify_sleep"
         /\ now' = now + slept
         /\ start_time' = now + slept
         /\ LocalPoll(now + slept, now + slept)

\* _wait_for_local_connections(), lines 210-228: the wait is over for a worker
\* without connections; otherwise it sleeps for the check interval.
WorkerWaitPolled ==
    /\ HasCount("local_poll")
    /\ graceful' = IF Counted = 0 THEN "force" ELSE "local_sleep"
    /\ Frame(ShutdownTask, IdleTask)
    /\ UNCHANGED <<mapVars, lockVars, wsVars, pre, now, svcVars, workerVars>>
    /\ UNCHANGED <<shutdown_requested, shutdown_start_time, exit_status, signals,
                   did>>

\* The sleep of line 228 is over, a check interval later.
WorkerWaitWake ==
    /\ graceful = "local_sleep"
    /\ Running
    /\ task[ShutdownTask].pc = "idle"
    /\ now' = now + 1
    /\ LocalPoll(now + 1, start_time)
    /\ UNCHANGED start_time

\* _worker_shutdown(), line 174: _force_close_connections is called, when the
\* wait returned or after the count of line 231; it counts (line 244 of
\* shutdown_handler.py).
WorkerForce ==
    /\ Secondary
    /\ \/ graceful = "force" /\ Running /\ task[ShutdownTask].pc = "idle"
       \/ HasCount("local_final")
    /\ LocalCount("force_count")
    /\ UNCHANGED <<now, did, start_time>>

\* _force_close_connections(), lines 246-253 of shutdown_handler.py, called by
\* the worker: nothing to close, or shutdown_all_connections, whose exception
\* is caught at line 262; _worker_shutdown returns after it.
WorkerForceClose ==
    /\ Secondary
    /\ HasCount("force_count")
    /\ IF Counted = 0
         THEN Returns("returned") /\ UNCHANGED <<waiters, did>>
         ELSE /\ did' = did \cup {"closeAll"}
              /\ \E raises \in BOOLEAN :
                   IF raises
                     THEN Returns("returned") /\ UNCHANGED waiters
                     ELSE /\ graceful' = "force_close"
                          /\ BroadcastBegin(ShutdownTask,
                                            [IdleTask EXCEPT !.op = "closeAll",
                                                             !.stage = "notice"])
    /\ UNCHANGED <<workerVars, shutdown_requested, shutdown_start_time,
                   exit_status, signals>>
    /\ UNCHANGED <<mapVars, lock, now, pre, svcVars>>
    /\ Forget(accepted, closeCount)

\* _force_close_connections(), line 256: shutdown_all_connections has returned;
\* the count that follows is inside the try of line 252.
WorkerVerify ==
    /\ Secondary
    /\ HasCount("force_close")
    /\ \E raises \in BOOLEAN :
         IF raises
           THEN Returns("returned") /\ UNCHANGED waiters
           ELSE CountBegin(ShutdownTask) /\ graceful' = "force_verify"
    /\ UNCHANGED <<workerVars, shutdown_requested, shutdown_start_time,
                   exit_status, signals, did>>
    /\ UNCHANGED <<mapVars, lock, now, pre, svcVars>>
    /\ Forget(accepted, closeCount)

\* _worker_shutdown(), lines 176-179: the worker's sequence is complete and
\* coordinate_shutdown returns.
WorkerReturn ==
    /\ Secondary
    /\ HasCount("force_verify")
    /\ Returns("returned")
    /\ UNCHANGED <<workerVars, shutdown_requested, shutdown_start_time,
                   exit_status, signals, did>>
    /\ UNCHANGED <<mapVars, lockVars, now, wsVars, pre, svcVars>>

(* ------------------------------------------------------ specifications *)
\* The calls of the two tasks interleave at their suspensions; all of them fall
\* within one tick of the clock.
Next ==
    \/ \E t \in Callers :
        \/ Connect(t)
        \/ ConnectResume(t)
        \/ ConnectAccept(t)
        \/ Disconnect(t)
        \/ DisconnectResume(t)
        \/ BroadcastCall(t)
        \/ BroadcastSnapshot(t)
        \/ BroadcastSend(t)
        \/ BroadcastPing(t)
        \/ BroadcastEnd(t)
        \/ CleanupAcquire(t)
        \/ CleanupStep(t)
        \/ CleanupEnd(t)
        \/ CleanupStaleCall(t)
        \/ CleanupStaleScan(t)
        \/ CloseAllCall(t)
        \/ CloseAllCollect(t)
        \/ Finish(t)
    \/ \E t \in Handlers :
        \/ Connect(t)
        \/ ConnectResume(t)
        \/ ConnectAccept(t)
        \/ Disconnect(t)
        \/ DisconnectResume(t)
        \/ Finish(t)

Spec == Init /\ [][Next]_vars

\* One caller awaits each call before it makes the next, while time passes; with
\* no other task there is no waiting for the lock.
SeqNext ==
    \/ Connect(1)
    \/ ConnectAccept(1)
    \/ Disconnect(1)
    \/ BroadcastCall(1)
    \/ BroadcastSend(1)
    \/ BroadcastEnd(1)
    \/ CleanupStep(1)
    \/ CleanupEnd(1)
    \/ CleanupStaleCall(1)
    \/ CloseAllCall(1)
    \/ Finish(1)
    \/ Tick

SeqSpec == Init /\ [][SeqNext]_vars

\* Task 1 makes its calls one after the other while the endpoint handler only
\* disconnects: no connect runs at the same time as another call.
LeaveNext ==
    \/ \E t \in Callers :
        \/ Connect(t)
        \/ ConnectResume(t)
        \/ ConnectAccept(t)
        \/ Disconnect(t)
        \/ DisconnectResume(t)
        \/ BroadcastCall(t)
        \/ BroadcastSnapshot(t)
        \/ BroadcastSend(t)
        \/ BroadcastPing(t)
        \/ BroadcastEnd(t)
        \/ CleanupAcquire(t)
        \/ CleanupStep(t)
        \/ CleanupEnd(t)
        \/ CleanupStaleCall(t)
        \/ CleanupStaleScan(t)
        \/ CloseAllCall(t)
        \/ CloseAllCollect(t)
        \/ Finish(t)
    \/ \E t \in Handlers :
        \/ Disconnect(t)
        \/ DisconnectResume(t)
        \/ Finish(t)

LeaveSpec == Init /\ [][LeaveNext]_vars

\* The notification service: one caller starts and stops it, the periodic task
\* broadcasts, and an endpoint handler connects clients.
SchedNext ==
    \/ StartCall
    \/ StopCall
    \/ CleanupCall
    \/ StopReturn
    \/ LoopIterate
    \/ LoopCountResume
    \/ LoopBroadcast
    \/ LoopSnapshot
    \/ LoopSend
    \/ LoopPing
    \/ LoopEnd
    \/ LoopCleanupAcquire
    \/ LoopCleanupStep
    \/ LoopCleanupEnd
    \/ LoopTakes
    \/ LoopCancelled
    \/ \E t \in Handlers :
        \/ Connect(t)
        \/ ConnectResume(t)
        \/ ConnectAccept(t)
        \/ Finish(t)

SchedSpec == Init /\ [][SchedNext]_vars

\* The shutdown: signals arrive, the graceful_shutdown task runs its phases
\* against the service and the registry, and an endpoint handler connects
\* clients until the request and disconnects them. No connect waits for the
\* lock: none is called while the shutdown task is in the registry.
ShutNext ==
    \/ StartCall
    \/ StopReturn
    \/ LoopCancelled
    \/ SignalHandler
    \/ ShutBegin
    \/ ShutNotify
    \/ ShutNotice
    \/ ShutNoticeSent
    \/ ShutDrain
    \/ ShutDrainPolled
    \/ ShutDrainSwept
    \/ ShutDrainWake
    \/ ShutForce
    \/ ShutForceClose
    \/ ShutVerify
    \/ ShutExit
    \/ \E t \in {ShutdownTask} :
        \/ CountResume(t)
        \/ BroadcastSnapshot(t)
        \/ BroadcastSend(t)
        \/ BroadcastPing(t)
        \/ BroadcastEnd(t)
        \/ CleanupStaleScan(t)
        \/ CloseAllCollect(t)
        \/ CleanupAcquire(t)
        \/ CleanupStep(t)
        \/ CleanupEnd(t)
    \/ \E t \in Handlers :
        \/ EndpointConnect(t)
        \/ ConnectAccept(t)
        \/ EndpointDisconnect(t)
        \/ DisconnectResume(t)
        \/ Finish(t)

ShutSpec == Init /\ [][ShutNext]_vars

\* The steps of the graceful_shutdown task, those of the registry calls it is
\* in and the return of the stop() it awaits included
ShutdownSteps ==
    \/ ShutBegin
    \/ StopReturn
    \/ ShutNotify
    \/ ShutNotice
    \/ ShutNoticeSent
    \/ ShutDrain
    \/ ShutDrainPolled
    \/ ShutDrainSwept
    \/ ShutDrainWake
    \/ ShutForce
    \/ ShutForceClose
    \/ ShutVerify
    \/ ShutExit
    \/ CountResume(ShutdownTask)
    \/ BroadcastSnapshot(ShutdownTask)
    \/ BroadcastSend(ShutdownTask)
    \/ BroadcastPing(ShutdownTask)
    \/ BroadcastEnd(ShutdownTask)
    \/ CleanupStaleScan(ShutdownTask)
    \/ CloseAllCollect(ShutdownTask)
    \/ CleanupAcquire(ShutdownTask)
    \/ CleanupStep(ShutdownTask)
    \/ CleanupEnd(ShutdownTask)

\* The steps by which a call of an endpoint handler goes on once it is made
HandlerSteps ==
    \E t \in Handlers : ConnectAccept(t) \/ DisconnectResume(t) \/ Finish(t)

\* The event loop runs every task that is ready, in turn, and every awaited
\* transport call, sleep and lock acquisition comes back: a task that can take a
\* step again and again does take it.
LiveShutSpec ==
    /\ ShutSpec
    /\ SF_vars(ShutdownSteps)
    /\ SF_vars(HandlerSteps)
    /\ SF_vars(LoopCancelled)

\* The shutdown sequence may take as long as it likes over its wait (no
\* fairness for the steps that enter it or end a sleep of it: ShutDrain,
\* ShutDrainWake), so that its timeout and
\* its forced close need never come; the calls it is in come back, and so do
\* those of the handlers. Every receive of a message loop returns or times out:
\* while handlers of registered clients can see the request again and again,
\* one of them does.
LiveDrainSpec ==
    /\ ShutSpec
    /\ SF_vars(\/ ShutBegin \/ StopReturn \/ ShutNotify \/ ShutNotice
               \/ ShutNoticeSent \/ ShutDrainPolled \/ ShutDrainSwept
               \/ ShutForce \/ ShutForceClose \/ ShutVerify \/ ShutExit
               \/ CountResume(ShutdownTask) \/ BroadcastSnapshot(ShutdownTask)
               \/ BroadcastSend(ShutdownTask) \/ BroadcastPing(ShutdownTask)
               \/ BroadcastEnd(ShutdownTask) \/ CleanupStaleScan(ShutdownTask)
               \/ CloseAllCollect(ShutdownTask) \/ CleanupAcquire(ShutdownTask)
               \/ CleanupStep(ShutdownTask) \/ CleanupEnd(ShutdownTask))
    /\ SF_vars(HandlerSteps)
    /\ SF_vars(LoopCancelled)
    /\ SF_vars(\E t \in Handlers : LoopSeesShutdown(t))

\* The handler of a client is in its message loop, or hands an error of its
\* connection to handle_websocket_error, while other handlers, task 1, connect
\* and disconnect clients.
MsgNext ==
    \/ \E t \in Callers :
        \/ Connect(t)
        \/ ConnectResume(t)
        \/ ConnectAccept(t)
        \/ EndpointDisconnect(t)
        \/ DisconnectResume(t)
        \/ Finish(t)
    \/ \E t \in Handlers :
        \/ ProcessClientMessage(t)
        \/ MessageResume(t)
        \/ HandleWebsocketError(t)
        \/ ErrorClose(t)
        \/ Finish(t)

MsgSpec == Init /\ [][MsgNext]_vars

\* The notification service with its periodic loop, task 1, and a second task
\* that connects clients and calls the service as the HTTP endpoints do. The
\* calls are made one at a time: a caller begins while the periodic task
\* sleeps, and an iteration begins when no call is under way, so that no call
\* waits for the lock.
NotifyNext ==
    \/ StartCall
    \/ StopCall
    \/ StopReturn
    \/ (\A t \in Handlers : task[t].pc = "idle") /\ LoopIterate
    \/ LoopBroadcast
    \/ LoopSend
    \/ LoopEnd
    \/ LoopCleanupStep
    \/ LoopCleanupEnd
    \/ LoopTakes
    \/ LoopCancelled
    \/ \E t \in Handlers :
        \/ task[PeriodicTask].pc = "idle" /\ Connect(t)
        \/ ConnectAccept(t)
        \/ task[PeriodicTask].pc = "idle" /\ ServiceCall(t)
        \/ SendTest(t)
        \/ BroadcastSend(t)
        \/ BroadcastEnd(t)
        \/ CleanupStep(t)
        \/ CleanupEnd(t)
        \/ Finish(t)

NotifySpec == Init /\ [][NotifyNext]_vars

\* The handlers of websocket_endpoint: each task connects a client, is
\* rejected or registered, and leaves through the finally clause.
EndpointNext ==
    \E t \in Tasks :
        \/ Connect(t)
        \/ ConnectResume(t)
        \/ ConnectAccept(t)
        \/ EndpointRejected(t)
        \/ EndpointDisconnect(t)
        \/ DisconnectResume(t)
        \/ task[t].out \notin {"duplicate", "limit"} /\ Finish(t)

EndpointSpec == Init /\ [][EndpointNext]_vars

\* The steps by which a call of the registry made by task t goes on: the lock
\* it waits for is granted, the transport call it awaits returns or raises, the
\* call returns.
CallSteps(t) ==
    \/ ConnectResume(t)
    \/ ConnectAccept(t)
    \/ DisconnectResume(t)
    \/ BroadcastSnapshot(t)
    \/ BroadcastSend(t)
    \/ BroadcastPing(t)
    \/ BroadcastEnd(t)
    \/ CleanupAcquire(t)
    \/ CleanupStep(t)
    \/ CleanupEnd(t)
    \/ CleanupStaleScan(t)
    \/ CloseAllCollect(t)
    \/ Finish(t)

\* Every transport call returns or raises and asyncio.Lock wakes its waiters in
\* turn: a call that can go on again and again does go on.
LiveLeaveSpec == LeaveSpec /\ \A t \in Tasks : SF_vars(CallSteps(t))

\* The roles of a deployment: each worker process constructs its coordinator.
RoleInit ==
    /\ InitServer
    /\ \E n \in 1..MaxWorkers : worker_id \in WorkerIds(n)
    /\ is_master_worker = EmptyMap

RoleNext == \E w \in 1..MaxWorkers : Construct(w)

RoleSpec == RoleInit /\ [][RoleNext]_vars

\* A deployment of two workers, numbered 1 and 2: this process is either one.
CoordInit ==
    /\ InitServer
    /\ worker_id \in {<<1, 2>>, <<2, 1>>}
    /\ is_master_worker = [w \in 1..2 |-> IsMasterWorker(worker_id[w])]

\* The lifespan of the application in one worker: the service is started, an
\* endpoint handler connects and disconnects clients, and the server stops
\* without a signal having reached _signal_handler, so that the lifespan awaits
\* coordinate_shutdown. Clients arrive until then, so that no connect finds
\* the lock taken; a connect in flight is accepted during the sequence, and
\* clients leave at any time.
CoordNext ==
    \/ graceful = "none" /\ StartCall
    \/ StopReturn
    \/ LoopCancelled
    \/ CoordinateShutdown
    \/ WorkerCount
    \/ WorkerNotify
    \/ ShutNotice
    \/ ShutNoticeSent
    \/ WorkerWait
    \/ WorkerWaitPolled
    \/ WorkerWaitWake
    \/ WorkerForce
    \/ WorkerForceClose
    \/ WorkerVerify
    \/ WorkerReturn
    \/ \E t \in {ShutdownTask} :
        \/ CountResume(t)
        \/ BroadcastSnapshot(t)
        \/ BroadcastSend(t)
        \/ BroadcastEnd(t)
        \/ CloseAllCollect(t)
        \/ CleanupAcquire(t)
        \/ CleanupStep(t)
        \/ CleanupEnd(t)
    \/ \E t \in Handlers :
        \/ graceful = "none" /\ Connect(t)
        \/ ConnectAccept(t)
        \/ EndpointDisconnect(t)
        \/ DisconnectResume(t)
        \/ Finish(t)

CoordSpec == CoordInit /\ [][CoordNext]_vars

\* The lifespan's teardown (app.py, lines 79-97) in the master, on the frame of
\* an endpoint handler's task: coordinate_shutdown awaits graceful_shutdown
\* (multi_worker_shutdown.py, line 128), which returns at once unless a
\* shutdown was requested (shutdown_handler.py, lines 87-89) and otherwise runs
\* the phases of lines 99-112, whether or not the task that _signal_handler
\* created runs them too. Line 121 ends it with SystemExit, which leaves the
\* lifespan and, the server being at its end, the process. The event loop
\* enters it while the task of the signal has not started or sleeps.
LifespanShutdown ==
    LET t == CHOOSE h \in Handlers : TRUE
        idle == Running /\ task[t].pc = "idle"
        has(op) == task[t].pc = "done" /\ task[t].op = op
        Goes(p) == teardown' = p /\ UNCHANGED <<exit_status, graceful>>
        Ends == /\ teardown' = "exited"
                /\ exit_status' = 0
                /\ graceful' = "exited"
                /\ Frame(t, Done([IdleTask EXCEPT !.op = "exit"], "ok", 0))
        Counts(p) == \E raises \in BOOLEAN :
                       IF raises
                         THEN Ends /\ UNCHANGED waiters
                         ELSE CountBegin(t) /\ Goes(p)
        Poll(at) == /\ Counts(IF at < shutdown_start_time + shutdown_timeout
                                THEN "drain_count"
                                ELSE "drain_final")
                    /\ UNCHANGED <<mapVars, lock, wsVars, pre, svcVars>>
    IN /\ exit_status = None
       /\ is_master_worker[ThisWorker]
       /\ UNCHANGED <<worker_id, is_master_worker, start_time, shutdown_requested,
                      shutdown_start_time, signals, did>>
       /\ \/ /\ teardown = "none"
             /\ graceful \in {"none", "created", "notify_sleep", "drain_sleep"}
             /\ idle
             /\ ctl = "idle"
             /\ IF shutdown_requested
                  THEN /\ Goes("stop")
                       /\ \E raises \in BOOLEAN :
                            IF raises
                              THEN UNCHANGED <<svcVars, registryVars>>
                              ELSE Stops("stop")
                  ELSE /\ Goes("returned")
                       /\ UNCHANGED <<svcVars, registryVars>>
          \/ /\ teardown = "stop"
             /\ idle
             /\ ctl = "idle"
             /\ Counts("notify_count")
             /\ UNCHANGED <<mapVars, lock, now, wsVars, pre, svcVars>>
          \/ /\ teardown = "notify_count"
             /\ has("count")
             /\ IF task[t].ret = 0
                  THEN Goes("drain") /\ Frame(t, IdleTask) /\ UNCHANGED waiters
                  ELSE \E raises \in BOOLEAN :
                         IF raises
                           THEN /\ Goes("drain")
                                /\ Frame(t, IdleTask)
                                /\ UNCHANGED waiters
                           ELSE /\ Goes("notify_send")
                                /\ BroadcastBegin(t, [IdleTask EXCEPT !.op = "broadcast"])
             /\ UNCHANGED <<mapVars, lock, now, pre, svcVars>>
             /\ Forget(accepted, closeCount)
          \/ /\ teardown = "notify_send"
             /\ has("broadcast")
             /\ Goes("notify_sleep")
             /\ Frame(t, IdleTask)
             /\ UNCHANGED <<mapVars, lockVars, now, pre, svcVars>>
             /\ Forget(accepted, closeCount)
          \/ /\ teardown \in {"drain", "notify_sleep"}
             /\ idle
             /\ \E slept \in {0, 1} :
                  /\ slept = 1 => teardown = "notify_sleep"
                  /\ now' = now + slept
                  /\ Poll(now + slept)
          \/ /\ teardown = "drain_count"
             /\ has("count")
             /\ IF task[t].ret = 0
                  THEN Goes("force") /\ Frame(t, IdleTask) /\ UNCHANGED lockVars
                  ELSE \E raises \in BOOLEAN :
                         IF raises
                           THEN Ends /\ UNCHANGED lockVars
                           ELSE Goes("drain_stale") /\ CleanupStaleBegin(t, now)
             /\ UNCHANGED <<mapVars, now, pre, svcVars>>
             /\ Forget(accepted, closeCount)
          \/ /\ teardown = "drain_stale"
             /\ has("cleanupStale")
             /\ Goes("drain_sleep")
             /\ Frame(t, IdleTask)
             /\ UNCHANGED <<mapVars, lockVars, now, pre, svcVars>>
             /\ Forget(accepted, closeCount)
          \/ /\ teardown = "drain_sleep"
             /\ idle
             /\ now' = now + 1
             /\ Poll(now + 1)
          \/ /\ \/ teardown = "force" /\ idle
                \/ teardown = "drain_final" /\ has("count")
             /\ Counts("force_count")
             /\ UNCHANGED <<mapVars, lock, now, wsVars, pre, svcVars>>
          \/ /\ teardown = "force_count"
             /\ has("count")
             /\ IF task[t].ret = 0
                  THEN Ends /\ UNCHANGED waiters
                  ELSE \E raises \in BOOLEAN :
                         IF raises
                           THEN Ends /\ UNCHANGED waiters
                           ELSE /\ Goes("force_close")
                                /\ BroadcastBegin(t, [IdleTask EXCEPT !.op = "closeAll",
                                                                     !.stage = "notice"])
             /\ UNCHANGED <<mapVars, lock, now, pre, svcVars>>
             /\ Forget(accepted, closeCount)
          \/ /\ teardown = "force_close"
             /\ has("closeAll")
             /\ Counts("force_verify")
             /\ UNCHANGED <<mapVars, lock, now, pre, svcVars>>
             /\ Forget(accepted, closeCount)
          \/ /\ teardown = "force_verify"
             /\ has("count")
             /\ Ends
             /\ UNCHANGED <<mapVars, lockVars, now, wsVars, pre, svcVars>>

\* One process that a signal reaches and whose server ends the lifespan, in
\* either order and at any distance: clients connect before the signal and
\* stay; the task of the signal and the lifespan's teardown each run
\* graceful_shutdown; the task starts while the teardown has not begun, has
\* returned or sleeps.
TeardownNext ==
    \/ StartCall
    \/ StopReturn
    \/ LoopCancelled
    \/ SignalHandler
    \/ teardown \in {"none", "returned", "notify_sleep", "drain_sleep"} /\ ShutBegin
    \/ ShutNotify
    \/ ShutNotice
    \/ ShutNoticeSent
    \/ ShutDrain
    \/ ShutDrainPolled
    \/ ShutDrainSwept
    \/ ShutDrainWake
    \/ ShutForce
    \/ ShutForceClose
    \/ ShutVerify
    \/ ShutExit
    \/ LifespanShutdown
    \/ \E t \in Tasks :
        \/ CountResume(t)
        \/ BroadcastSnapshot(t)
        \/ BroadcastSend(t)
        \/ BroadcastPing(t)
        \/ BroadcastEnd(t)
        \/ CleanupStaleScan(t)
        \/ CloseAllCollect(t)
        \/ CleanupAcquire(t)
        \/ CleanupStep(t)
        \/ CleanupEnd(t)
    \/ \E t \in Handlers :
        \/ teardown = "none" /\ EndpointConnect(t)
        \/ ConnectAccept(t)
        \/ task[t].op = "connect" /\ Finish(t)

TeardownSpec == Init /\ [][TeardownNext]_vars

(* -------------------------------------------------------------- claims *)
\* C1: under any interleaving of concurrent calls the number of registered
\* connections never exceeds max_connections, and a connect succeeds for an id
\* only while that id is not registered and the registry is below its limit: of
\* two concurrent connects with the same id, or that would jointly exceed the
\* limit, not both succeed.
C1_ConnectAtomic ==
    /\ [](Cardinality(DOMAIN connections) <= max_connections)
    /\ [][\A t \in Tasks :
            (/\ task[t].pc # "done"
             /\ task'[t].pc = "done"
             /\ task'[t].op = "connect"
             /\ task'[t].out = "ok")
            => /\ task'[t].client_id \notin DOMAIN connections
               /\ Cardinality(DOMAIN connections) < max_connections
               /\ DOMAIN connections' = DOMAIN connections \cup {task'[t].client_id}
               /\ connections'[task'[t].client_id] = task'[t].websocket]_vars

\* Two connects with the same id ran at the same time: one has succeeded and
\* filled the registry, the other still waits for the lock.
C1_Witness ==
    /\ task[2].pc = "done" /\ task[2].op = "connect" /\ task[2].out = "ok"
    /\ task[1].pc = "connect_lock"
    /\ task[1].client_id = task[2].client_id
    /\ Cardinality(DOMAIN connections) = max_connections

\* C2: in a sequence of calls, a connect with an id that is not registered
\* succeeds while fewer than max_connections are registered, and count() is
\* then one more than before; at max_connections it fails with the
\* connection-limit outcome and leaves count() and totalCount() unchanged.
C2_ConnectUpToLimit ==
    \A t \in Tasks :
        (/\ task[t].pc = "done"
         /\ task[t].op = "connect"
         /\ pre[t].valid
         /\ task[t].client_id \notin DOMAIN pre[t].conns)
        => IF Cardinality(DOMAIN pre[t].conns) < max_connections
             THEN /\ task[t].out \in {"ok", "accept_error"}
                  /\ task[t].out = "ok" =>
                       /\ DOMAIN connections =
                            DOMAIN pre[t].conns \cup {task[t].client_id}
                       /\ Cardinality(DOMAIN connections) =
                            Cardinality(DOMAIN pre[t].conns) + 1
                       /\ total_connections = pre[t].total + 1
             ELSE /\ task[t].out = "limit"
                  /\ connections = pre[t].conns
                  /\ Cardinality(DOMAIN connections) = max_connections
                  /\ total_connections = pre[t].total

\* max_connections connects with distinct ids have succeeded from the empty
\* registry, and the next one has failed with the limit outcome.
C2_Witness ==
    /\ task[1].pc = "done" /\ task[1].op = "connect" /\ task[1].out = "limit"
    /\ pre[1].valid
    /\ Cardinality(DOMAIN pre[1].conns) = max_connections
    /\ total_connections = max_connections

\* C3: a connect for an id that is registered fails with the duplicate outcome,
\* also when the registry is at capacity; the new WebSocket is not accepted, and
\* count(), totalCount() and the entry and WebSocket of the id are unchanged.
C3_DuplicateRejected ==
    \A t \in Tasks :
        (/\ task[t].pc = "done"
         /\ task[t].op = "connect"
         /\ pre[t].valid
         /\ task[t].client_id \in DOMAIN pre[t].conns)
        => /\ task[t].out = "duplicate"
           /\ task[t].websocket \notin accepted
           /\ task[t].websocket # pre[t].conns[task[t].client_id]
           /\ connections = pre[t].conns
           /\ connection_info = pre[t].info
           /\ total_connections = pre[t].total

\* A connect for a registered id was rejected while the registry was full.
C3_Witness ==
    /\ task[1].pc = "done" /\ task[1].op = "connect"
    /\ task[1].out = "duplicate"
    /\ pre[1].valid
    /\ task[1].client_id \in DOMAIN pre[1].conns
    /\ Cardinality(DOMAIN pre[1].conns) = max_connections

\* C4: with no other call running, a broadcast over N registered connections of
\* which exactly K have a failing send returns N-K; afterwards count() is N-K,
\* exactly the K failing ids are gone and every other id is registered as before.
C4_BroadcastCount ==
    \A t \in Tasks :
        (task[t].pc = "done" /\ task[t].op = "broadcast" /\ pre[t].valid)
        => LET N == Cardinality(DOMAIN pre[t].conns)
               K == Cardinality(task[t].sendRaised)
           IN /\ task[t].sendRaised \subseteq DOMAIN pre[t].conns
              /\ task[t].ret = N - K
              /\ Cardinality(DOMAIN connections) = N - K
              /\ DOMAIN connections = DOMAIN pre[t].conns \ task[t].sendRaised
              /\ \A c \in DOMAIN connections : connections[c] = pre[t].conns[c]
              /\ DOMAIN connection_info = DOMAIN connections

\* A broadcast over two connections, one of which failed, has returned.
C4_Witness ==
    /\ task[1].pc = "done" /\ task[1].op = "broadcast"
    /\ pre[1].valid
    /\ Cardinality(DOMAIN pre[1].conns) = 2
    /\ Cardinality(task[1].sendRaised) = 1
    /\ task[1].ret = 1

\* C5: in a broadcast that runs to completion every member of the snapshot gets
\* exactly one send attempt, whatever the outcome of the other sends (no member
\* ever gets a second one, and at the return none is left out), and the call
\* returns to its caller: a failing send or close never makes it raise.
C5_OneAttemptEach ==
    /\ [](\A t \in Tasks : \A c \in Clients :
            task[t].attempts[c] =
                IF c \in DOMAIN task[t].connections_snapshot \ task[t].todo
                  THEN 1 ELSE 0)
    /\ [](\A t \in Tasks :
            (task[t].pc = "done" /\ task[t].op \in {"broadcast", "closeAll"})
            => task[t].out = "ok")
    /\ [][\A t \in Tasks :
            (/\ task[t].pc \in {"send", "cleanup"}
             /\ task[t].stage # "final"
             /\ task[t].op \in {"broadcast", "closeAll"}
             /\ \/ task'[t].pc \in {"done", "collect"}
                \/ task'[t].stage = "final")
            => /\ task[t].todo = {}
               /\ \A c \in DOMAIN task[t].connections_snapshot :
                    task[t].attempts[c] = 1
               /\ task'[t].pc = "done" => task'[t].out = "ok"]_vars

\* A broadcast is about to return: a send to one member of its snapshot raised,
\* the send to another went through, and a close() of its cleanup raised.
C5_Witness ==
    /\ task[1].op = "broadcast" /\ task[1].pc = "cleanup"
    /\ ToClose(1) = {}
    /\ task[1].closeRaised
    /\ task[1].sendRaised # {}
    /\ task[1].successful_sends >= 1
    /\ \A c \in DOMAIN task[1].connections_snapshot : task[1].attempts[c] = 1

\* C6: the lock is held only for reads and writes of the maps: no operation of
\* the registry is suspended in a transport call (accept, send_json or close)
\* while it holds the lock.
C6_NoTransportUnderLock ==
    \A t \in Tasks :
        lock = t =>
            /\ task[t].pc # "accept"
            /\ ~(task[t].pc = "send" /\ task[t].todo # {})
            /\ ~(task[t].pc = "cleanup" /\ ToClose(t) # {})

\* C7, as the code has it: cleanup_stale_connections removes exactly the
\* registered connections whose age, now - max(last_ping, connected_at), is
\* greater than T = 3 * ping_interval, returns their number, and leaves every
\* other connection registered, one whose age equals T included.
C7_StaleExactlyOlder ==
    \A t \in Tasks :
        (task[t].pc = "done" /\ task[t].op = "cleanupStale" /\ pre[t].valid)
        => LET T == 3 * ping_interval
               last(c) == IF pre[t].info[c].last_ping = None
                               \/ pre[t].info[c].last_ping < pre[t].info[c].connected_at
                            THEN pre[t].info[c].connected_at
                            ELSE pre[t].info[c].last_ping
               old == {c \in DOMAIN pre[t].conns : pre[t].now - last(c) > T}
           IN /\ DOMAIN connections = DOMAIN pre[t].conns \ old
              /\ task[t].ret = Cardinality(old)
              /\ \A c \in DOMAIN connections :
                    /\ connections[c] = pre[t].conns[c]
                    /\ connection_info[c] = pre[t].info[c]

\* C7, as stated: the connections removed are exactly those whose age is >= T,
\* one whose age equals T included, and their number is returned.
C7_StaleAtThreshold ==
    \A t \in Tasks :
        (task[t].pc = "done" /\ task[t].op = "cleanupStale" /\ pre[t].valid)
        => LET T == 3 * ping_interval
               last(c) == IF pre[t].info[c].last_ping = None
                               \/ pre[t].info[c].last_ping < pre[t].info[c].connected_at
                            THEN pre[t].info[c].connected_at
                            ELSE pre[t].info[c].last_ping
               old == {c \in DOMAIN pre[t].conns : pre[t].now - last(c) >= T}
           IN /\ DOMAIN connections = DOMAIN pre[t].conns \ old
              /\ task[t].ret = Cardinality(old)

\* A stale cleanup has returned 1: it removed a connection older than T and kept
\* one whose age was exactly T.
C7_Witness ==
    /\ task[1].pc = "done" /\ task[1].op = "cleanupStale"
    /\ pre[1].valid
    /\ task[1].ret = 1
    /\ \E c \in DOMAIN pre[1].conns \ DOMAIN connections :
          pre[1].now - LastActivity(pre[1].info[c]) > 3 * ping_interval
    /\ \E c \in DOMAIN connections :
          /\ c \in DOMAIN pre[1].conns
          /\ pre[1].now - LastActivity(pre[1].info[c]) = 3 * ping_interval

\* C8: total_connections grows by exactly one in every step in which a connect
\* succeeds and is unchanged by every other step (failed connects, disconnect,
\* the cleanups, shutdown_all_connections), and it is never less than the number
\* of registered connections.
C8_TotalCounts ==
    /\ [](total_connections >= Cardinality(DOMAIN connections))
    /\ [][total_connections' =
            total_connections
              + Cardinality({t \in Tasks : /\ task[t].pc = "accept"
                                          /\ task'[t].pc = "done"
                                          /\ task'[t].out = "ok"})]_vars

\* A connect has just succeeded after two connections had been counted and
\* removed: the total is two more than the number registered.
C8_Witness ==
    /\ \E t \in Tasks :
          task[t].pc = "done" /\ task[t].op = "connect" /\ task[t].out = "ok"
    /\ total_connections = Cardinality(DOMAIN connections) + 2

\* C9: disconnect is idempotent: for an id that is not registered it raises
\* nothing and leaves the maps, count() and totalCount() unchanged; for a
\* registered id it removes the entry of that id and no other.
C9_DisconnectIdempotent ==
    \A t \in Tasks :
        (task[t].pc = "done" /\ task[t].op = "disconnect" /\ pre[t].valid)
        => /\ task[t].out = "ok"
           /\ total_connections = pre[t].total
           /\ DOMAIN connections = DOMAIN pre[t].conns \ {task[t].client_id}
           /\ DOMAIN connection_info = DOMAIN pre[t].info \ {task[t].client_id}
           /\ \A c \in DOMAIN connections :
                 /\ connections[c] = pre[t].conns[c]
                 /\ connection_info[c] = pre[t].info[c]
           /\ task[t].client_id \notin DOMAIN pre[t].conns =>
                 /\ connections = pre[t].conns
                 /\ connection_info = pre[t].info

\* A disconnect of an id that is not registered has returned, with other
\* connections registered.
C9_Witness ==
    /\ task[1].pc = "done" /\ task[1].op = "disconnect" /\ task[1].out = "ok"
    /\ pre[1].valid
    /\ task[1].client_id \notin DOMAIN pre[1].conns
    /\ DOMAIN pre[1].conns # {}

\* C10: when accept() fails inside connect no entry is created: the maps,
\* count() and totalCount() are as before and the lock is released; and an id is
\* in the map only with a WebSocket whose accept() has returned.
C10_AcceptFailure ==
    /\ [](\A c \in DOMAIN connections : connections[c] \in accepted)
    /\ [][\A t \in Tasks :
            (/\ task[t].pc = "accept"
             /\ task'[t].pc = "done"
             /\ task'[t].out = "accept_error")
            => /\ UNCHANGED mapVars
               /\ task[t].websocket \notin accepted'
               /\ lock = t
               /\ lock' = NoTask]_vars

\* A connect whose accept() raised has returned: its id is not registered, the
\* lock is free, and the connections registered before are still there.
C10_Witness ==
    \E t \in Tasks :
        /\ task[t].pc = "done" /\ task[t].op = "connect"
        /\ task[t].out = "accept_error"
        /\ task[t].client_id \notin DOMAIN connections
        /\ lock = NoTask
        /\ DOMAIN connections # {}

\* C11: when shutdown_all_connections returns and no connect ran at the same
\* time, count() is 0: every entry is removed, whether or not the shutdown
\* notice reached it and whether or not the close() of its WebSocket raised; and
\* no WebSocket is closed more than once.
C11_CloseAllEmpties ==
    /\ \A t \in Tasks :
          (task[t].pc = "done" /\ task[t].op = "closeAll")
          => /\ task[t].out = "ok"
             /\ DOMAIN connections = {}
             /\ DOMAIN connection_info = {}
    /\ \A s \in Sockets : closeCount[s] <= 1

\* shutdown_all_connections is about to return with the registry empty: the
\* notice to one connection failed, and the close() of one that had received it
\* raised.
C11_Witness ==
    /\ task[1].op = "closeAll" /\ task[1].pc = "cleanup"
    /\ task[1].stage = "final"
    /\ ToClose(1) = {}
    /\ task[1].sendRaised # {}
    /\ task[1].closeRaised
    /\ DOMAIN connections = {}

\* stop_periodic_notifications() has returned and start has not been called since.
Stopped == ctl = "idle" /\ returned.op \in {"stop", "cleanup"}

\* C12: once stop() has returned, the periodic task is done, wherever in its
\* iteration (before its first step, building the payload, broadcasting,
\* sleeping) the call found it: it is in no registry call, so no broadcast comes
\* from it, and notificationsSent keeps its value until the next start().
C12_StopStops ==
    /\ [](Stopped => /\ ~Alive
                     /\ ~must_cancel
                     /\ ~is_running
                     /\ task[PeriodicTask] = IdleTask)
    /\ [][Stopped => notification_counter' = notification_counter]_vars

\* stop() has returned after cancelling a task that was in the middle of a
\* broadcast.
C12_Witness ==
    /\ Stopped
    /\ returned.op = "stop"
    /\ cancelled_at = "broadcast"
    /\ notification_counter > 0

\* C13: a start() that finds the service running leaves the periodic task as it
\* is, and no task is alive besides the one self._periodic_task holds: no
\* start() has overwritten a task that was alive.
C13_StartIdempotent ==
    /\ [](orphans = 0)
    /\ [][(StartCall /\ is_running)
           => UNCHANGED <<is_running, loop, must_cancel, orphans, task,
                          notification_counter>>]_vars

\* start() has returned from its "already running" branch while the periodic
\* task was in the middle of a broadcast.
C13_Witness ==
    /\ returned = [op |-> "start", out |-> "already running"]
    /\ is_running
    /\ loop = "broadcast"
    /\ task[PeriodicTask].pc = "send"

\* C14: stop() and cleanup() raise nothing; called when the service is not
\* running they return at once and change neither running, which is false, nor
\* notificationsSent nor the task; and the service is not running after either
\* has returned, so a call that follows another finds it so.
C14_StopIdempotent ==
    /\ [](returned.op \in {"stop", "cleanup"} => returned.out # "error")
    /\ [](Stopped => ~is_running)
    /\ [][((StopCall \/ CleanupCall) /\ ~is_running)
           => /\ ~is_running'
              /\ ctl' = "idle"
              /\ returned'.out = "not running"
              /\ UNCHANGED <<notification_counter, loop, must_cancel, task>>]_vars

\* cleanup() has returned from its "not running" branch after an earlier call
\* had stopped a service that had sent notifications.
C14_Witness ==
    /\ returned = [op |-> "cleanup", out |-> "not running"]
    /\ ctl = "idle"
    /\ loop = "cancelled"
    /\ notification_counter > 0
    /\ ~is_running

\* C15: no call of send_notification ends the task that made it: it returns 0
\* when broadcast() raised and broadcast's count otherwise.
C15_SendNeverRaises ==
    [][(loop = "broadcast" /\ loop' # "broadcast" /\ loop' # "cancelled")
       => /\ loop' = "sleep"
          /\ is_running' = is_running
          /\ task[PeriodicTask].pc = "done"
          /\ recipients' = IF task[PeriodicTask].out = "error"
                             THEN 0
                             ELSE task[PeriodicTask].ret]_vars

\* broadcast() has raised inside send_notification while clients were
\* connected and the service was running.
C15_Witness ==
    /\ loop = "broadcast"
    /\ task[PeriodicTask].pc = "done"
    /\ task[PeriodicTask].out = "error"
    /\ is_running
    /\ DOMAIN connections # {}
    /\ notification_counter > 0

\* C16: a broadcast that raises leaves the loop alive, asleep, with running
\* unchanged, and the next iteration can run; an exception while the message is
\* built ends the task and clears running.
C16_LoopSurvivesBroadcast ==
    /\ [][(/\ loop = "broadcast"
           /\ task[PeriodicTask].pc = "done"
           /\ task[PeriodicTask].out = "error"
           /\ loop' # loop)
          => (loop' = "sleep" /\ is_running' = is_running)]_vars
    /\ []((/\ broadcast_failed
           /\ loop = "sleep"
           /\ is_running
           /\ Running
           /\ notification_counter < MaxNotifications)
          => ENABLED LoopIterate)
    /\ [][(loop' = "raised" /\ loop # "raised") => loop = "payload"]_vars
    /\ [](loop = "raised" => ~is_running /\ task[PeriodicTask] = IdleTask)

\* The second iteration of a task is under way after the broadcast of its first
\* one raised.
C16_Witness ==
    /\ broadcast_failed
    /\ loop = "payload"
    /\ is_running
    /\ notification_counter > 1

\* The phase of the shutdown, read off the handler's fields and the place of
\* the graceful_shutdown task
Phase ==
    IF exit_status # None THEN "Terminated"
    ELSE IF ~shutdown_requested THEN "Idle"
    ELSE IF graceful = "created" THEN "Requested"
    ELSE IF graceful = "stop" THEN "StoppingServices"
    ELSE IF graceful \in {"notify_count", "notify_send", "notify_sleep"}
           THEN "NotifyingClients"
    ELSE IF graceful \in {"drain", "drain_count", "drain_stale", "drain_sleep",
                          "drain_final"}
           THEN "Draining"
    ELSE "ForceClosing"

PhaseOrder ==
    <<"Idle", "Requested", "StoppingServices", "NotifyingClients", "Draining",
      "ForceClosing", "Terminated">>

Rank(p) == CHOOSE i \in DOMAIN PhaseOrder : PhaseOrder[i] = p

\* The phase in which graceful_shutdown makes each of its calls
PhaseOf ==
    [c \in {"stop", "notice", "poll", "closeAll"} |->
        CASE c = "stop" -> "StoppingServices"
          [] c = "notice" -> "NotifyingClients"
          [] c = "poll" -> "Draining"
          [] c = "closeAll" -> "ForceClosing"]

\* C17: the phase never moves backwards; stop() has been called in every phase
\* after Requested and before the exit; and each call is made from its own phase
\* or on entering it, never from a later one: the stop before the notice, the
\* notice before the polls of the drain, these before closeAll, and all of them
\* before the exit.
C17_PhasesForward ==
    /\ [][Rank(Phase') >= Rank(Phase)]_vars
    /\ [](InTry => "stop" \in did)
    /\ [](\A c \in did : Rank(Phase) >= Rank(PhaseOf[c]))
    /\ [][\A c \in did' \ did : /\ Rank(Phase) <= Rank(PhaseOf[c])
                               /\ Phase' # "Idle"
                               /\ exit_status = None]_vars

\* A shutdown that went through every phase, made each call and exited
C17_Witness ==
    /\ Phase = "Terminated"
    /\ exit_status = 0
    /\ signals = 1
    /\ did = {"stop", "notice", "poll", "closeAll"}
    /\ now >= shutdown_start_time + shutdown_timeout

\* C18: once the shutdown is requested the process exits, whichever calls of
\* the phases raise, and the exit of the sequence itself has status 0: only a
\* second signal exits with another.
C18_ExitsWithZero ==
    /\ shutdown_requested ~> (exit_status # None)
    /\ [](exit_status \notin {None, 0} => signals > 1)

\* The process has exited with status 0 after a single signal from a shutdown
\* that left the try before its last phase: a call raised.
C18_Witness ==
    /\ exit_status = 0
    /\ signals = 1
    /\ DOMAIN connections # {}
    /\ "closeAll" \notin did

\* C19: after a second termination signal the process has exited with status
\* 1, and graceful_shutdown has made no further call.
C19_SecondSignalExitsOne ==
    /\ [](signals > 1 => exit_status = 1)
    /\ [][signals' > 1 => did' = did]_vars

\* C20: the handler of a signal that finds no shutdown requested sets the flag,
\* records the time and creates the task, which has not started; it makes no
\* call of the service or the registry, joins no queue and changes nothing else.
C20_FirstSignalOnlyRequests ==
    [][(~shutdown_requested /\ signals' # signals)
       => /\ shutdown_requested'
          /\ shutdown_start_time' = now
          /\ graceful' = "created"
          /\ exit_status' = None
          /\ UNCHANGED <<did, svcVars, registryVars>>]_vars

\* The first signal has been handled while the service was running and a client
\* was connected; the task has not run yet.
C20_Witness ==
    /\ signals = 1
    /\ shutdown_requested
    /\ shutdown_start_time = now
    /\ graceful = "created"
    /\ is_running
    /\ DOMAIN connections # {}
    /\ did = {}

EmptyRun == HasCount("force_count") /\ Counted = 0 /\ total_connections = 0

InWaitLoop == graceful \in {"drain_count", "drain_stale", "drain_sleep"}

\* timeout_time = self._shutdown_start_time + timedelta(seconds=shutdown_timeout)
timeout_time == shutdown_start_time + shutdown_timeout

\* C23: the wait is left only on a count of zero or at a time that has reached
\* the deadline (or by an exception that ends graceful_shutdown); the loop polls
\* only before the deadline; the deadline is the start time recorded by the
\* signal handler plus the timeout, and the start time is written by the first
\* signal only; and a poll that finds connections calls
\* cleanup_stale_connections.
C23_DrainLeaves ==
    /\ [][(InWaitLoop /\ ~InWaitLoop')
            => \/ graceful' = "force" /\ HasCount("drain_count") /\ Counted = 0
               \/ graceful' = "drain_final" /\ now' >= timeout_time
               \/ graceful' = "exited"]_vars
    /\ [][(graceful' = "drain_count" /\ graceful # "drain_count")
            => now' < timeout_time]_vars
    /\ [][(graceful' = "drain_final" /\ graceful # "drain_final")
            => now' >= timeout_time]_vars
    /\ [][shutdown_start_time' # shutdown_start_time
            => ~shutdown_requested /\ shutdown_start_time' = now]_vars
    /\ [][(HasCount("drain_count") /\ Counted > 0 /\ graceful' # graceful)
            => \/ graceful' = "drain_stale"
                  /\ task'[ShutdownTask].op = "cleanupStale"
               \/ graceful' = "exited"]_vars

\* The wait has run into its deadline with a client still connected, after a
\* notice whose pause took the first tick of the timeout.
C23_Witness ==
    /\ graceful = "drain_final"
    /\ now = timeout_time
    /\ "notice" \in did
    /\ DOMAIN connections # {}
    /\ HasCount("drain_final")
    /\ Counted > 0

\* C24: once shutdown_all_connections has returned to graceful_shutdown the
\* registry is empty, whether the close() calls returned or raised, and the
\* count that follows is 0; it is called only when the deadline of the wait has
\* passed with a client still connected; and the process then exits, with
\* status 0 unless a second signal arrives.
C24_ForcedCloseEmpties ==
    /\ [](HasCount("force_close") => DOMAIN connections = {})
    /\ [](HasCount("force_verify") => Counted = 0 /\ DOMAIN connections = {})
    /\ []("closeAll" \in did => now >= timeout_time /\ "poll" \in did)
    /\ [][HasCount("force_verify") /\ graceful' # graceful
            => exit_status' = 0]_vars
    /\ (graceful = "force_close") ~> (exit_status = 0 \/ signals > 1)

\* The one client that ever connected stayed until the deadline; the close() of
\* shutdown_all_connections raised, and its entry is gone.
C24_Witness ==
    /\ graceful = "force_close"
    /\ task[ShutdownTask].stage = "final"
    /\ task[ShutdownTask].closeRaised
    /\ total_connections = 1
    /\ DOMAIN connections = {}
    /\ now >= timeout_time
    /\ signals = 1

\* C30: _force_close_connections calls shutdown_all_connections if and only if
\* the count it made on entry is positive, and no other step of
\* graceful_shutdown calls it; on a count of zero the step makes no call: no
\* broadcast begins and no socket is closed.
C30_CloseAllIffConnections ==
    /\ [][(HasCount("force_count") /\ graceful' # graceful)
            => /\ "closeAll" \in did' <=> Counted > 0
               /\ Counted = 0
                    => /\ task'[ShutdownTask].op = "exit"
                       /\ closeCount' = closeCount
                       /\ UNCHANGED <<mapVars, lockVars>>]_vars
    /\ [][("closeAll" \in did' /\ "closeAll" \notin did)
            => HasCount("force_count")]_vars
    /\ [][task'[ShutdownTask].op = "closeAll" => "closeAll" \in did']_vars

\* The forced close found a client and has called shutdown_all_connections,
\* which is sending its notice.
C30_Witness ==
    /\ graceful = "force_close"
    /\ task[ShutdownTask].op = "closeAll"
    /\ task[ShutdownTask].stage = "notice"
    /\ task[ShutdownTask].pc = "send"
    /\ "closeAll" \in did

\* C25 (stated as the specification has it): in a deployment of two or more
\* worker processes, once every worker has constructed its coordinator, exactly
\* one of them has the master role, whatever worker ids the environment gives,
\* the id being unset included.
C25_ExactlyOneMaster ==
    (workers >= 2 /\ DOMAIN is_master_worker = DOMAIN worker_id)
        => Cardinality({w \in DOMAIN worker_id : is_master_worker[w]}) = 1

\* The time a secondary worker has waited for its local connections
elapsed == now - start_time

\* C26: a secondary worker's coordinate_shutdown stops the local scheduler
\* first; it sends the notice, polls and force-closes only after a local count
\* above zero, and returns at once, having done none of them, after a local
\* count of zero; each poll of its wait is made less than
\* min(300, shutdown_timeout / 2) after the wait began and the wait is given up
\* only when that much time has passed since its own start; the force-close
\* follows the wait; and the process is never exited.
C26_SecondaryLocalDrain ==
    /\ [](Secondary /\ graceful # "none" => "stop" \in did)
    /\ [](Secondary => exit_status = None)
    /\ [][Secondary /\ HasCount("local_count") /\ Counted = 0
            => /\ graceful' \in {"local_count", "returned"}
               /\ did' = did]_vars
    /\ [][Secondary /\ graceful = "returned"
            => graceful' = "returned" /\ did' = did]_vars
    /\ [][Secondary /\ "notice" \in did' \ did
            => HasCount("notify_count") /\ Counted > 0]_vars
    /\ [][Secondary /\ graceful' = "local_poll" /\ graceful # "local_poll"
            => now' - start_time' < timeout_seconds]_vars
    /\ [][Secondary /\ graceful' = "local_final" /\ graceful # "local_final"
            => now' - start_time' >= timeout_seconds]_vars
    /\ [][Secondary /\ start_time' # start_time
            => start_time' = now' /\ start_time = None]_vars
    /\ [][Secondary /\ "closeAll" \in did' \ did
            => HasCount("force_count") /\ Counted > 0 /\ "poll" \in did]_vars

\* A secondary worker has notified its clients, waited out its time, closed
\* the connections that remained, and returned.
C26_Witness ==
    /\ Secondary
    /\ graceful = "returned"
    /\ did = {"stop", "notice", "poll", "closeAll"}
    /\ elapsed >= timeout_seconds
    /\ exit_status = None

\* C27 (stated as the specification has it): when the master worker's
\* coordinate_shutdown has returned, the scheduler was stopped by it and the
\* process has exited with status 0, as after the sequence that the signal
\* handler launches.
C27_MasterRunsSequence ==
    (is_master_worker[ThisWorker] /\ graceful = "returned")
        => ("stop" \in did /\ exit_status = 0)

\* The message loop of task t has just had a message of client c processed
\* whose text is not JSON or whose type is unknown.
Rejected(t, c) ==
    /\ task[t].pc = "done"
    /\ task[t].op = "message"
    /\ task[t].client_id = c
    /\ MessageType(task[t].stage) \in {"JSONDecodeError", "unknown"}

\* C28: a message that is not JSON, or whose type is unknown, makes
\* process_client_message send one error payload, on the socket of the client
\* that sent it and on no other; the call takes one step, in which the registry
\* does not change, so that the client is still registered; and the call
\* returns normally, so that the message loop goes on, also when sending the
\* error payload raised.
C28_ProtocolErrorKeepsConnection ==
    /\ [](\A t \in Handlers, c \in Clients :
            Rejected(t, c)
              => /\ task[t].ret = 1
                 /\ task[t].attempts = [d \in Clients |-> IF d = c THEN 1 ELSE 0]
                 /\ task[t].out = "ok")
    /\ [][\A t \in Handlers, c \in Clients :
            (Rejected(t, c))' /\ task[t].pc # "done"
              => /\ task[t].pc = "idle"
                 /\ mapVars' = mapVars
                 /\ lockVars' = lockVars
                 /\ c \in DOMAIN connections'
                 /\ task'[t].websocket = connections'[c]]_vars
    /\ [][\A t \in Handlers, c \in Clients :
            Rejected(t, c) /\ task'[t] # task[t]
              => task'[t] = IdleTask /\ mapVars' = mapVars]_vars

\* A malformed message was answered with an error payload whose send raised,
\* while another client is registered too.
C28_Witness ==
    \E t \in Handlers, c \in Clients :
        /\ Rejected(t, c)
        /\ task[t].stage = "malformed"
        /\ task[t].sendRaised = {c}
        /\ c \in DOMAIN connections
        /\ DOMAIN connections # {c}

\* Task t runs handle_websocket_error for the error e of client c's connection.
Handling(t, c, e) ==
    /\ task[t].op = "error"
    /\ task[t].client_id = c
    /\ task[t].stage = e

\* C29: handle_websocket_error, called for an active connection, sends the
\* notice at most once (not at all for a disconnect) and to that client only,
\* then calls close once on its socket, with code 1008 for a connection-limit
\* or duplicate-id error, 1001 for shutdown in progress and 1011 for an
\* unclassified error; the close is attempted also when the notice raised, and
\* the handler returns normally whether or not the notice or the close raised.
C29_ErrorNoticeThenClose ==
    /\ [](\A t \in Handlers, c \in Clients, e \in Errors :
            Handling(t, c, e)
              => /\ task[t].attempts[c] <= 1
                 /\ e = "WebSocketDisconnect" => task[t].attempts[c] = 0
                 /\ \A d \in Clients \ {c} : task[t].attempts[d] = 0
                 /\ e \in {"ConnectionLimitError", "DuplicateConnectionError"}
                      => task[t].ret = 1008
                 /\ e = "ShutdownInProgressError" => task[t].ret = 1001
                 /\ e = "Exception" => task[t].ret = 1011
                 /\ task[t].pc \in {"error_close", "done"}
                 /\ task[t].out \in {"none", "ok"})
    /\ [][\A t \in Handlers, c \in Clients, e \in Errors :
            (Handling(t, c, e))' /\ task[t].pc = "idle"
              => /\ task'[t].pc = "error_close"
                 /\ closeCount' = closeCount
                 /\ task'[t].websocket = connections[c]]_vars
    /\ [][\A t \in Handlers, c \in Clients, e \in Errors :
            Handling(t, c, e) /\ task[t].pc = "error_close" /\ task'[t] # task[t]
              => /\ task'[t].pc = "done"
                 /\ task'[t].out = "ok"
                 /\ task'[t].ret = task[t].ret
                 /\ task'[t].attempts = task[t].attempts
                 /\ task[t].websocket \in LiveSockets'
                 /\ closeCount'[task[t].websocket]
                      = closeCount[task[t].websocket] + 1]_vars
    /\ [][\A t \in Handlers, c \in Clients, e \in Errors :
            Handling(t, c, e) /\ task[t].pc = "done" /\ task'[t] # task[t]
              => task'[t] = IdleTask]_vars

\* The notice of a connection-limit error raised, and the close was attempted
\* with code 1008 all the same.
C29_Witness ==
    \E t \in Handlers, c \in Clients :
        /\ Handling(t, c, "ConnectionLimitError")
        /\ task[t].pc = "done"
        /\ task[t].sendRaised = {c}
        /\ task[t].ret = 1008
        /\ closeCount[task[t].websocket] >= 1

\* C39: graceful_shutdown called while no shutdown was requested, as the
\* master's coordinate_shutdown calls it when the lifespan ends without a
\* signal, returns in one step that stops no service, sends no notice, makes no
\* poll, closes nothing, does not exit the process and leaves
\* _shutdown_requested false; nothing of the sequence follows it.
C39_IdleShutdownDoesNothing ==
    /\ [][(is_master_worker[ThisWorker] /\ ~shutdown_requested
             /\ graceful = "none" /\ graceful' # "none")
            => /\ graceful' = "returned"
               /\ did' = did
               /\ UNCHANGED <<svcVars, registryVars>>
               /\ exit_status' = None
               /\ ~shutdown_requested']_vars
    /\ [](is_master_worker[ThisWorker] /\ graceful = "returned"
            => /\ did = {}
               /\ exit_status = None
               /\ ~shutdown_requested
               /\ \A s \in Sockets : closeCount[s] = 0)

\* The master's call has returned while a client is connected and the
\* notification loop runs.
C39_Witness ==
    /\ is_master_worker[ThisWorker]
    /\ graceful = "returned"
    /\ ~shutdown_requested
    /\ DOMAIN connections # {}
    /\ is_running

\* A test notification is created in this step: by an iteration of the
\* periodic loop, or by a call of send_test_notification.
TestCreated ==
    \/ loop' = "payload" /\ loop # "payload"
    \/ \E t \in Handlers : task'[t].op = "test" /\ task[t].pc = "idle"

\* C31: _notification_counter grows by exactly one in every step that creates
\* a test notification, in the periodic loop or in a send_test_notification
\* call, with or without recipients, and in no other step: not when the
\* broadcast that follows ends, fails or raises, nor in send_notification
\* (which the custom and system notifications go through), get_service_stats,
\* start or stop.
C31_CounterCountsTestNotifications ==
    /\ [][TestCreated => notification_counter' = notification_counter + 1]_vars
    /\ [][~TestCreated => notification_counter' = notification_counter]_vars
    /\ [][is_running' # is_running \/ ctl' # ctl
            => notification_counter' = notification_counter]_vars

\* Two test notifications were counted; the one a caller asked for had no
\* recipient, since building its message raised, and the service is running.
C31_Witness ==
    /\ notification_counter >= 2
    /\ is_running
    /\ loop = "sleep"
    /\ \E t \in Handlers :
         /\ task[t].pc = "done"
         /\ task[t].op = "broadcast"
         /\ task[t].out = "error"

\* Task t is the handler of a connection attempt that connect() rejected, and
\* has not finished.
RejectedAttempt(t) ==
    \/ /\ task[t].op = "connect"
       /\ task[t].out \in {"duplicate", "limit"}
    \/ /\ task[t].op = "disconnect"
       /\ task[t].websocket # NoSocket

\* C32 (stated as the specification has it): no step of the handler of a
\* rejected connection attempt, from the rejection until the handler has
\* finished, changes the registry; the connection registered under the id of a
\* rejected duplicate is still registered afterwards.
C32_RejectedLeavesRegistry ==
    [][\A t \in Tasks :
         RejectedAttempt(t) /\ task'[t] # task[t]
           => connections' = connections /\ connection_info' = connection_info]_vars

\* C34 (stated as the specification has it): once a shutdown was requested, no
\* step adds a connection to the registry.
C34_NoNewConnectionAfterRequest ==
    [][shutdown_requested => DOMAIN connections' \subseteq DOMAIN connections]_vars

\* C37: whenever the lock is free, _connections and _connection_info have the
\* same keys; and a record appears in _connection_info only in the step in
\* which a connect call stores it together with the socket, so that an update
\* of last_ping for an id that is no longer registered creates nothing.
C37_MapsHaveSameKeys ==
    /\ [](lock = NoTask => DOMAIN connections = DOMAIN connection_info)
    /\ [][\A id \in Clients :
            id \in DOMAIN connection_info' \ DOMAIN connection_info
              => /\ id \in DOMAIN connections'
                 /\ \E t \in Tasks : /\ task[t].pc = "accept"
                                     /\ task[t].client_id = id]_vars

\* A broadcast has sent to a client and comes to update its last_ping, with the
\* lock free, when the client is no longer registered.
C37_Witness ==
    \E t \in Tasks :
        /\ task[t].pc = "ping"
        /\ Resumes(t)
        /\ task[t].cur \notin DOMAIN connections
        /\ task[t].cur \notin DOMAIN connection_info
        /\ DOMAIN connections # {}

\* C33 (stated as the specification has it): the cleanup that ends a broadcast
\* closes and removes a connection only if its socket is the one of the
\* broadcast's snapshot, the one whose send failed; a connection registered
\* anew under a failed id since the snapshot is left alone.
C33_CleanupSparesNewHandle ==
    [][\A t \in Tasks, id \in Clients :
         (/\ task[t].op = "broadcast"
          /\ task[t].pc = "cleanup"
          /\ task'[t] # task[t]
          /\ id \in DOMAIN connections
          /\ id \notin DOMAIN connections')
           => connections[id] = task[t].connections_snapshot[id]]_vars

\* C38: no task waits for the lock while it holds it; a call that has returned
\* or raised, an accept() or close() that raised included, does not hold the
\* lock; and every call of connect, disconnect, broadcast,
\* cleanup_stale_connections and shutdown_all_connections, whatever runs
\* beside it, comes to its end, provided every transport call returns or
\* raises.
C38_LockReleasedAndCallsEnd ==
    /\ [](\A t \in Tasks : lock = t => \A i \in DOMAIN waiters : waiters[i] # t)
    /\ [](\A t \in Tasks : task[t].pc \in {"idle", "done"} => lock # t)
    /\ [](\A t \in Tasks :
            (\E i \in DOMAIN waiters : waiters[i] = t)
              <=> task[t].pc \in {"connect_lock", "disconnect_lock", "snapshot",
                                   "ping", "cleanup_lock", "scan", "collect",
                                   "count_lock", "message_lock"})
    /\ \A t \in Tasks : []<>(task[t].pc = "idle")

\* An accept() has raised in a connect that held the lock while a disconnect
\* waited for it: the lock is free for the waiter.
C38_Witness ==
    \E t \in Tasks :
        /\ task[t].pc = "done"
        /\ task[t].op = "connect"
        /\ task[t].out = "accept_error"
        /\ lock = NoTask
        /\ waiters # <<>>

\* C35: the task that _signal_handler created and the graceful_shutdown that
\* the lifespan's teardown awaits through coordinate_shutdown are never both
\* inside the phases of graceful_shutdown.
C35_OnePhaseExecution ==
    ~(InTry /\ teardown \notin {"none", "returned", "exited"})

\* C36: once the shutdown is requested the registry eventually is empty, every
\* connection registered at the request or after it having been removed,
\* unless the process has exited first; this holds even if the shutdown
\* sequence sleeps for ever and never reaches its forced close, because the
\* message loop of each handler sees the request and the endpoint disconnects
\* its client.
C36_HandlersDrainRegistry ==
    shutdown_requested ~> (DOMAIN connections = {} \/ exit_status # None)

\* The shutdown sequence sleeps in its wait, which found a client registered;
\* the client's handler has disconnected it, shutdown_all_connections was not
\* called, and the registry is empty.
C36_Witness ==
    /\ shutdown_requested
    /\ graceful = "drain_sleep"
    /\ "closeAll" \notin did
    /\ \E t \in Handlers : task[t].pc = "done" /\ task[t].op = "disconnect"
    /\ DOMAIN connections = {}
    /\ exit_status = None

====
